---- MODULE Spec2Model ----
(***************************************************************************)
(* A model of the numerical-consistency experiment's scoring engine        *)
(* (src/src/evaluator.py, class ConsistencyEvaluator).                      *)
(*                                                                         *)
(* Representation.                                                         *)
(*  - A Python str is the record [str |-> <<c1, ..., cn>>] of its          *)
(*    characters; None is the record [none |-> TRUE].                      *)
(*  - A CJK character is written as an ASCII token:                        *)
(*      "da" "an" "shi" = U+7B54 U+6848 U+662F (the answer is),             *)
(*      "jie" "guo" = U+7D50 U+679C, "deng" "yu" = U+7B49 U+65BC,           *)
(*      "yuan" U+5143, "ge" U+500B, "ben" U+672C, "ke" U+9846,              *)
(*      "gong" U+516C, "chi" U+5C3A, "fen" U+5206, "jin" U+65A4,            *)
(*      "wo" "bu" "zhi" "dao" = U+6211 U+4E0D U+77E5 U+9053,                *)
(*      "zong" "ji" = U+7E3D U+8A08.                                        *)
(*  - A float is an exact rational, the record [n |-> numerator,          *)
(*    d |-> denominator] in lowest terms with d > 0.  Binary rounding of   *)
(*    floats is not modelled.                                              *)
(*  - A dict with fixed keys is a record; a dict with computed keys is a   *)
(*    function on the keys it holds; a list is a sequence.                 *)
(***************************************************************************)
EXTENDS Integers, Sequences, FiniteSets, TLC

VARIABLES
    text,        \* the argument of the extract_number call under study
    extracted,   \* what that call returned (NotCalled before the call)
    responses,   \* the list of response dictionaries handed to the evaluator
    tolerance,   \* self.tolerance (None while no evaluator is constructed)
    set_order,   \* the order in which this interpreter's sets iterate
    result,      \* the last call: its name and what it returned or raised
    tester,      \* the construction of the LLMTester: how it was asked for, how it ended
    frame,       \* the locals of the query or batch_query call in progress
    log,         \* the provider calls made and the seconds slept, in order
    all_responses, \* the all_responses list of batch_query
    temp_file    \* the list in the intermediate responses file (None while absent)

\* the state of the querying side
api_vars == <<tester, frame, log, all_responses, temp_file>>

vars == <<text, extracted, responses, tolerance, set_order, result, api_vars>>

-----------------------------------------------------------------------------
(* Values *)

None == [none |-> TRUE]
NotCalled == [notcalled |-> TRUE]
Str(chars) == [str |-> chars]
NoMatch == [nomatch |-> TRUE]

Min(a, b) == IF a <= b THEN a ELSE b
Abs(x) == IF x < 0 THEN -x ELSE x

-----------------------------------------------------------------------------
(* Character classes of Python's re on str: \d, \s, [+-] *)

Digits == {"0", "1", "2", "3", "4", "5", "6", "7", "8", "9"}
IsDigit(c) == c \in Digits
IsSpace(c) == c \in {" ", "\n", "\t", "\r", "\f"}
IsSign(c) == c \in {"+", "-"}

DigitVal(c) ==
    CASE c = "0" -> 0 [] c = "1" -> 1 [] c = "2" -> 2 [] c = "3" -> 3
      [] c = "4" -> 4 [] c = "5" -> 5 [] c = "6" -> 6 [] c = "7" -> 7
      [] c = "8" -> 8 [] c = "9" -> 9

\* the character at 1-based position i, or a token no class contains
At(s, i) == IF i >= 1 /\ i <= Len(s) THEN s[i] ELSE "EOT"

HasWordAt(s, i, w) ==
    /\ i >= 1
    /\ i + Len(w) - 1 <= Len(s)
    /\ \A k \in 1..Len(w) : s[i + k - 1] = w[k]

RECURSIVE DigitRun(_, _)
\* how many characters \d* can take from position i
DigitRun(s, i) == IF IsDigit(At(s, i)) THEN 1 + DigitRun(s, i + 1) ELSE 0

RECURSIVE SpaceRun(_, _)
\* how many characters \s* can take from position i
SpaceRun(s, i) == IF IsSpace(At(s, i)) THEN 1 + SpaceRun(s, i + 1) ELSE 0

RECURSIVE GroupRun(_, _)
\* how many repetitions (?:,\d{3})+ can take from position i
GroupRun(s, i) ==
    IF /\ At(s, i) = ","
       /\ IsDigit(At(s, i + 1)) /\ IsDigit(At(s, i + 2)) /\ IsDigit(At(s, i + 3))
    THEN 1 + GroupRun(s, i + 4)
    ELSE 0

\* $ without re.MULTILINE: the end, or just before a final newline
AtDollar(s, i) == i = Len(s) + 1 \/ (i = Len(s) /\ s[i] = "\n")

-----------------------------------------------------------------------------
(* The alternations of the patterns *)

AnswerPhrases ==
    << <<"da", "an", "shi">>, <<"jie", "guo", "shi">>, <<"deng", "yu">>, <<"shi">> >>

UnitWords ==
    << <<"yuan">>, <<"ge">>, <<"ben">>, <<"ke">>,
       <<"gong", "chi">>, <<"gong", "fen">>, <<"gong", "jin">> >>

\* the first alternative of words (in listed order) found at i, 0 if none
FirstWordAt(s, i, words) ==
    LET hits == {a \in 1..Len(words) : HasWordAt(s, i, words[a])}
    IN  IF hits = {} THEN 0 ELSE CHOOSE a \in hits : \A b \in hits : a <= b

-----------------------------------------------------------------------------
(* Backtracking.  A candidate is one way the capture group can match from  *)
(* position i: ge is the position after the group, pref orders candidates  *)
(* as the regex engine tries them (greedy first): the engine takes the     *)
(* candidate of greatest pref whose continuation matches.                  *)

SignOpts(s, i) == IF IsSign(At(s, i)) THEN {0, 1} ELSE {0}
DotOpts(s, i) == IF At(s, i) = "." THEN {0, 1} ELSE {0}

\* ([+-]?\d+\.?\d*) from position i
NumberCands(s, i) ==
    LET B == Len(s) + 1
    IN  UNION { UNION { UNION {
            { [ge |-> i + sg + d1 + dot + d2,
               pref |-> ((sg * B + d1) * 2 + dot) * B + d2]
              : d2 \in 0..DigitRun(s, i + sg + d1 + dot) }
            : dot \in DotOpts(s, i + sg + d1) }
            : d1 \in 1..DigitRun(s, i + sg) }
            : sg \in SignOpts(s, i) }

\* ([+-]?\d{1,3}(?:,\d{3})+\.?\d*) from position i
CommaCands(s, i) ==
    LET B == Len(s) + 1
    IN  UNION { UNION { UNION { UNION {
            { [ge |-> i + sg + d1 + 4 * g + dot + d2,
               pref |-> (((sg * 4 + d1) * B + g) * 2 + dot) * B + d2]
              : d2 \in 0..DigitRun(s, i + sg + d1 + 4 * g + dot) }
            : dot \in DotOpts(s, i + sg + d1 + 4 * g) }
            : g \in 1..GroupRun(s, i + sg + d1) }
            : d1 \in 1..Min(3, DigitRun(s, i + sg)) }
            : sg \in SignOpts(s, i) }

Preferred(cands) == CHOOSE c \in cands : \A o \in cands : o.pref <= c.pref

\* where the group ends when the engine has cands to choose from, 0 if it has none
GroupEnd(cands) == IF cands = {} THEN 0 ELSE Preferred(cands).ge

\* the greatest of a set of positions, 0 if there is none
LastOf(positions) ==
    IF positions = {} THEN 0 ELSE CHOOSE x \in positions : \A y \in positions : y <= x

Match(start, gs, ge, end) == [start |-> start, gs |-> gs, ge |-> ge, end |-> end]

\* pattern 1: (?:answer phrase)\s*([+-]?\d+\.?\d*)
\* \s* is greedy: the group starts after the most spaces that leave it a match
AnswerGroup(s, i, gs) ==
    IF gs = 0 THEN NoMatch
    ELSE Match(i, gs, GroupEnd(NumberCands(s, gs)), GroupEnd(NumberCands(s, gs)))

AnswerAfter(s, i, p) ==
    AnswerGroup(s, i,
        LastOf({p + k : k \in {x \in 0..SpaceRun(s, p) : NumberCands(s, p + x) # {}}}))

AnswerWith(s, i, a) ==
    IF a = 0 THEN NoMatch ELSE AnswerAfter(s, i, i + Len(AnswerPhrases[a]))

MatchAnswerAt(s, i) == AnswerWith(s, i, FirstWordAt(s, i, AnswerPhrases))

\* the continuation \s*(?:unit word) from position j: the position after it, 0 if none
UnitEnd(s, u) ==
    IF u = 0 THEN 0 ELSE u + Len(UnitWords[FirstWordAt(s, u, UnitWords)])

UnitTail(s, j) ==
    UnitEnd(s, LastOf({j + k : k \in {x \in 0..SpaceRun(s, j) :
                                        FirstWordAt(s, j + x, UnitWords) # 0}}))

\* pattern 2: ([+-]?\d+\.?\d*)\s*(?:unit word)
UnitWith(s, i, ge) == IF ge = 0 THEN NoMatch ELSE Match(i, i, ge, UnitTail(s, ge))

MatchUnitAt(s, i) ==
    UnitWith(s, i, GroupEnd({c \in NumberCands(s, i) : UnitTail(s, c.ge) # 0}))

\* the continuation (?:\s|$) from position j: the position after it, 0 if none
EdgeTail(s, j) ==
    IF IsSpace(At(s, j)) THEN j + 1 ELSE IF AtDollar(s, j) THEN j ELSE 0

\* pattern 3: (?:^|\s)([+-]?\d+\.?\d*)(?:\s|$)
\* the alternative ^ is tried before the alternative \s
StandaloneWith(s, i, caretEnd, spaceEnd) ==
    IF caretEnd # 0 THEN Match(i, i, caretEnd, EdgeTail(s, caretEnd))
    ELSE IF spaceEnd # 0 THEN Match(i, i + 1, spaceEnd, EdgeTail(s, spaceEnd))
    ELSE NoMatch

StandaloneEnd(s, gs) == GroupEnd({c \in NumberCands(s, gs) : EdgeTail(s, c.ge) # 0})

MatchStandaloneAt(s, i) ==
    StandaloneWith(s, i,
        IF i = 1 THEN StandaloneEnd(s, i) ELSE 0,
        IF IsSpace(At(s, i)) THEN StandaloneEnd(s, i + 1) ELSE 0)

\* pattern 4: ([+-]?\d{1,3}(?:,\d{3})+\.?\d*)
CommaWith(i, ge) == IF ge = 0 THEN NoMatch ELSE Match(i, i, ge, ge)

MatchCommaAt(s, i) == CommaWith(i, GroupEnd(CommaCands(s, i)))

NumPatterns == 4

\* the match, were the pattern with commas the first of the list
MatchAtCommaFirst(p, s, i) ==
    CASE p = 1 -> MatchCommaAt(s, i)
      [] p = 2 -> MatchAnswerAt(s, i)
      [] p = 3 -> MatchUnitAt(s, i)
      [] p = 4 -> MatchStandaloneAt(s, i)

\* the match of patterns[p] that starts at position i
MatchAt(p, s, i) ==
    CASE p = 1 -> MatchAnswerAt(s, i)
      [] p = 2 -> MatchUnitAt(s, i)
      [] p = 3 -> MatchStandaloneAt(s, i)
      [] p = 4 -> MatchCommaAt(s, i)

RECURSIVE SearchFrom(_, _, _)
SearchStep(p, s, i, m) == IF m # NoMatch THEN m ELSE SearchFrom(p, s, i + 1)

\* the leftmost match starting at position i or later
SearchFrom(p, s, i) ==
    IF i > Len(s) THEN NoMatch ELSE SearchStep(p, s, i, MatchAt(p, s, i))

RECURSIVE FindallFrom(_, _, _)
FindallStep(p, s, m) ==
    IF m = NoMatch THEN <<>>
    ELSE <<SubSeq(s, m.gs, m.ge - 1)>> \o FindallFrom(p, s, m.end)

FindallFrom(p, s, pos) == FindallStep(p, s, SearchFrom(p, s, pos))

\* re.findall(patterns[p], text): the capture groups of the non-overlapping
\* matches, left to right
re_findall(p, s) == FindallFrom(p, s, 1)

-----------------------------------------------------------------------------
(* str.replace(',', '') and float() *)

IsComma(c) == c = ","
NotComma(c) == ~IsComma(c)
replace_commas(s) == SelectSeq(s, NotComma)

IsDot(c) == c = "."
StripSign(s) == IF IsSign(At(s, 1)) THEN Tail(s) ELSE s

\* the decimal literals float() accepts among strings of signs, digits and dots
IsFloatLiteral(s) ==
    LET body == StripSign(s)
        dots == Len(SelectSeq(body, IsDot))
        digs == Len(SelectSeq(body, IsDigit))
    IN  /\ dots <= 1
        /\ digs >= 1
        /\ dots + digs = Len(body)

RECURSIVE DigitsValue(_)
DigitsValue(ds) ==
    IF ds = <<>> THEN 0
    ELSE 10 * DigitsValue(SubSeq(ds, 1, Len(ds) - 1)) + DigitVal(ds[Len(ds)])

RECURSIVE Pow10(_)
Pow10(k) == IF k = 0 THEN 1 ELSE 10 * Pow10(k - 1)

RECURSIVE GCD(_, _)
GCD(a, b) == IF b = 0 THEN a ELSE GCD(b, a % b)

\* the float n / d (d > 0), in lowest terms
Float(n, d) == LET g == GCD(Abs(n), d) IN [n |-> n \div g, d |-> d \div g]

FAdd(a, b) == Float(a.n * b.d + b.n * a.d, a.d * b.d)
FSub(a, b) == Float(a.n * b.d - b.n * a.d, a.d * b.d)
FAbs(a) == [n |-> Abs(a.n), d |-> a.d]
FLeq(a, b) == a.n * b.d <= b.n * a.d
\* a / k for an integer k > 0
FDivInt(a, k) == Float(a.n, a.d * k)

\* float(s) for a literal s
float(s) ==
    LET body == StripSign(s)
        digs == SelectSeq(body, IsDigit)
        dotAt == IF \E i \in 1..Len(body) : body[i] = "."
                 THEN CHOOSE i \in 1..Len(body) : body[i] = "."
                 ELSE Len(body) + 1
        frac == IF dotAt > Len(body) THEN 0 ELSE Len(body) - dotAt
        sgn  == IF At(s, 1) = "-" THEN -1 ELSE 1
    IN  Float(sgn * DigitsValue(digs), Pow10(frac))

-----------------------------------------------------------------------------
(* ConsistencyEvaluator.extract_number *)

RECURSIVE ExtractFrom(_, _)
\* return float(num_str), or continue with the next pattern on ValueError
ParseOrContinue(s, p, num_str) ==
    IF IsFloatLiteral(num_str) THEN float(num_str) ELSE ExtractFrom(s, p + 1)

\* the loop body, were it to take the last match of the list instead of the first
ExtractStepLast(s, p, matches) ==
    IF matches # <<>>
    THEN ParseOrContinue(s, p, replace_commas(matches[Len(matches)]))
    ELSE ExtractFrom(s, p + 1)

\* the body of the loop for patterns[p]
ExtractStep(s, p, matches) ==
    IF matches # <<>>
    THEN ParseOrContinue(s, p, replace_commas(matches[1]))
    ELSE ExtractFrom(s, p + 1)

\* the for loop over patterns, from patterns[p] on
ExtractFrom(s, p) ==
    IF p > NumPatterns THEN None ELSE ExtractStep(s, p, re_findall(p, s))

extract_number(t) ==
    IF t = None \/ t.str = <<>> THEN None ELSE ExtractFrom(t.str, 1)

-----------------------------------------------------------------------------
(* Bounds and inputs of the extraction runs *)

MaxTextLen == 4

Alphabet == {"1", "2", ",", ".", "-", " ", "shi", "yuan", "x"}

ScenarioA == <<"da", "an", "shi", " ", "8", "0", "1">>
ScenarioB == <<"wo", "bu", "zhi", "dao">>
ScenarioE == <<"zong", "ji", " ", "1", "2", ",", "3", "4", "5", ".", "6", " ", "yuan">>
AfterPhrase == <<"da", "an", "shi", " ", "1", ",", "2", "3", "4">>
BeforeUnit == <<"1", ",", "2", "3", "4", " ", "yuan">>
GroupedOnly == <<"1", ",", "2", "3", "4">>
GroupedThenBare == <<"1", ",", "1", "1", "1", " ", "2">>

ScenarioTexts ==
    {ScenarioA, ScenarioB, ScenarioE, AfterPhrase, BeforeUnit, GroupedOnly,
     GroupedThenBare}

\* numerals with one thousands separator, with or without a fraction digit
GroupDigits == {"1", "2"}
Fractions == {<<>>} \cup {<<".", e>> : e \in GroupDigits}
Grouped(a, b, c, d, frac) == <<a, ",", b, c, d>> \o frac
GroupedNumerals ==
    {Grouped(a, b, c, d, frac) : a \in GroupDigits, b \in GroupDigits,
                                 c \in GroupDigits, d \in GroupDigits, frac \in Fractions}

\* an answer phrase before a numeral, a unit word after it
PhraseBefore == {<<"shi">>, <<"shi", " ">>}
UnitAfter == {<<"yuan">>, <<" ", "yuan">>}

GroupedTexts ==
    {pre \o g : pre \in PhraseBefore, g \in GroupedNumerals}
        \cup {g \o post : g \in GroupedNumerals, post \in UnitAfter}

Texts ==
    {None} \cup {Str(s) : s \in ScenarioTexts \cup GroupedTexts}
           \cup {Str(s) : s \in UNION {[1..k -> Alphabet] : k \in 0..MaxTextLen}}

-----------------------------------------------------------------------------
(* The extraction runs: one call of extract_number on one text *)

InitExtract ==
    /\ text \in Texts
    /\ extracted = NotCalled
    /\ responses = <<>>
    /\ tolerance = None
    /\ set_order = <<>>
    /\ result = NotCalled
    /\ tester = NotCalled
    /\ frame = None
    /\ log = <<>>
    /\ all_responses = <<>>
    /\ temp_file = None

ExtractNumber ==
    /\ extracted = NotCalled
    /\ extracted' = extract_number(text)
    /\ UNCHANGED <<text, responses, tolerance, set_order, result, api_vars>>

NextExtract == ExtractNumber

SpecExtract == InitExtract /\ [][NextExtract]_vars

-----------------------------------------------------------------------------
(* Bounds and inputs of the evaluation runs *)

MaxResponses == 3

Questions == <<"q1", "q2">>

GroundTruthOf(qid) == IF qid = "q1" THEN Float(1, 1) ELSE Float(2, 1)
CategoryOf(qid) == IF qid = "q1" THEN "arithmetic" ELSE "percentage"

\* question.get("operation", ""): q1 has an operation, q2 has none
OperationOf(qid) == IF qid = "q1" THEN "addition" ELSE ""

\* a response dictionary as batch_query fills it
Response(qid, version, answer) ==
    [question_id |-> qid, version_type |-> version, answer |-> answer,
     ground_truth |-> GroundTruthOf(qid), category |-> CategoryOf(qid),
     operation |-> OperationOf(qid)]

AnswerTexts == {None, Str(<<"1">>), Str(<<"shi", "2">>)}

\* sample_responses of evaluator.main
SampleResponse(version, answer) ==
    [question_id |-> "test_001", version_type |-> version, answer |-> Str(answer),
     ground_truth |-> Float(801, 1), category |-> "arithmetic",
     operation |-> "addition"]

SampleResponses ==
    << SampleResponse("direct", <<"da", "an", "shi", " ", "8", "0", "1">>),
       SampleResponse("contextualized",
            <<"xiao", "ming", "xian", "zai", "you", " ", "8", "0", "1", " ", "yuan">>),
       SampleResponse("variation", <<"deng", "yu", " ", "8", "0", "1">>) >>

\* three versions of one question, none with a numeral in its answer
NoNumeralResponses ==
    << Response("q1", "direct", None),
       Response("q1", "contextualized", Str(<<>>)),
       Response("q1", "variation", Str(ScenarioB)) >>

\* Scenario D with one repetition: the three versions extract 100, 50 and 200
DistinctResponses ==
    << Response("q1", "direct", Str(<<"1", "0", "0">>)),
       Response("q1", "contextualized", Str(<<"5", "0", " ", "yuan">>)),
       Response("q1", "variation", Str(<<"shi", "2", "0", "0">>)) >>

\* a response dictionary written by hand, without the "operation" key
BareResponse(qid, version, answer) ==
    [question_id |-> qid, version_type |-> version, answer |-> answer,
     ground_truth |-> GroundTruthOf(qid), category |-> CategoryOf(qid)]

\* a list whose dictionaries have no "operation" key
NoOperationResponses ==
    << BareResponse("q1", "direct", Str(<<"1">>)),
       BareResponse("q1", "direct", None),
       BareResponse("q2", "direct", Str(<<"1">>)) >>

\* repeat copies of each response of resps, in place
RECURSIVE Repeated(_, _)
Repeated(resps, repeat) ==
    IF resps = <<>> THEN <<>>
    ELSE [k \in 1..repeat |-> resps[1]] \o Repeated(Tail(resps), repeat)

\* Scenario C: three versions, three repetitions each, every answer extracts 100
ScenarioCResponses ==
    Repeated(<< Response("q1", "direct", Str(<<"1", "0", "0">>)),
                Response("q1", "contextualized", Str(<<"1", "0", "0", " ", "yuan">>)),
                Response("q1", "variation", Str(<<"shi", "1", "0", "0">>)) >>, 3)

\* Scenario D: three repetitions each, the versions extract 100, 50 and 200
ScenarioDResponses == Repeated(DistinctResponses, 3)

\* the two answers of one version extract 1 and 2, the other versions extract 1
TieResponses ==
    << Response("q1", "direct", Str(<<"1">>)),
       Response("q1", "direct", Str(<<"shi", "2">>)),
       Response("q1", "contextualized", Str(<<"1">>)),
       Response("q1", "variation", Str(<<"1">>)) >>

InitialResponses ==
    {<<>>, SampleResponses, NoNumeralResponses, DistinctResponses,
     NoOperationResponses, ScenarioCResponses, ScenarioDResponses, TieResponses}

\* extract_number is a pure function of the answer text: its value on each
\* answer text of the runs is computed once
ExtractionMemo ==
    [t \in AnswerTexts \cup UNION {{r[i].answer : i \in DOMAIN r} : r \in InitialResponses}
        |-> extract_number(t)]

\* self.extract_number(resp["answer"])
ExtractAnswer(resp) == ExtractionMemo[resp.answer]

Tolerances == {Float(1, 100), Float(1, 1)}

\* the extracted values a set can hold in a run over resps
ValuesIn(resps) == {ExtractAnswer(resps[i]) : i \in DOMAIN resps}

Orders(S) ==
    {f \in [1..Cardinality(S) -> S] : \A x \in S : \E i \in DOMAIN f : f[i] = x}

-----------------------------------------------------------------------------
(* Calls: what a method returned, or the exception it raised *)

Returned(v) == [raised |-> "", value |-> v]
Raised(e) == [raised |-> e]
Call(op, ret) == [op |-> op, ret |-> ret]

-----------------------------------------------------------------------------
(* Lists *)

Range(seq) == {seq[i] : i \in DOMAIN seq}

RECURSIVE FirstSeen(_)
\* the distinct elements of seq, in order of first occurrence (dict key order)
FirstSeen(seq) ==
    IF seq = <<>> THEN <<>>
    ELSE LET rest == FirstSeen(SubSeq(seq, 1, Len(seq) - 1))
             last == seq[Len(seq)]
         IN  IF last \in Range(rest) THEN rest ELSE Append(rest, last)

\* list.count
Count(seq, x) == Cardinality({i \in DOMAIN seq : seq[i] = x})

RECURSIVE FSum(_)
FSum(seq) == IF seq = <<>> THEN Float(0, 1) ELSE FAdd(seq[1], FSum(Tail(seq)))

-----------------------------------------------------------------------------
(* ConsistencyEvaluator.is_correct *)

\* is_correct, were the comparison strict
is_correct_strict(extracted_value, ground_truth) ==
    IF extracted_value = None THEN FALSE
    ELSE ~FLeq(tolerance, FAbs(FSub(extracted_value, ground_truth)))

is_correct(extracted_value, ground_truth) ==
    IF extracted_value = None THEN FALSE
    ELSE FLeq(FAbs(FSub(extracted_value, ground_truth)), tolerance)

-----------------------------------------------------------------------------
(* ConsistencyEvaluator.calculate_accuracy *)

ErrorEntry(resp, extracted_value, error_type) ==
    [question_id |-> resp.question_id,
     version |-> resp.version_type,
     ground_truth |-> resp.ground_truth,
     extracted |-> extracted_value,
     response |-> resp.answer,
     error_type |-> error_type]

\* the branches, were the second test an if of its own instead of an elif
ClassifyFallThrough(acc, resp, extracted_value) ==
    LET first == IF extracted_value = None
                 THEN [acc EXCEPT !.no_answer = @ + 1,
                                  !.errors = Append(@, ErrorEntry(resp, None,
                                                                  "no_answer_found"))]
                 ELSE acc
    IN  IF extracted_value # None /\ FLeq(FAbs(FSub(extracted_value, resp.ground_truth)),
                                          tolerance)
        THEN [first EXCEPT !.correct = @ + 1]
        ELSE [first EXCEPT !.errors =
                  Append(@, ErrorEntry(resp, extracted_value, "incorrect_answer"))]

\* the branches, were the test for a missing extraction left out
ClassifyWithoutNoneBranch(acc, resp, extracted_value) ==
    IF extracted_value # None /\ FLeq(FAbs(FSub(extracted_value, resp.ground_truth)),
                                      tolerance)
    THEN [acc EXCEPT !.correct = @ + 1]
    ELSE [acc EXCEPT !.errors =
              Append(@, ErrorEntry(resp, extracted_value, "incorrect_answer"))]

\* the branches of the loop body, extracted_value being the extraction
Classify(acc, resp, extracted_value) ==
    IF extracted_value = None
    THEN [acc EXCEPT !.no_answer = @ + 1,
                     !.errors = Append(@, ErrorEntry(resp, None, "no_answer_found"))]
    ELSE IF is_correct(extracted_value, resp.ground_truth)
    THEN [acc EXCEPT !.correct = @ + 1]
    ELSE [acc EXCEPT !.errors =
              Append(@, ErrorEntry(resp, extracted_value, "incorrect_answer"))]

\* one iteration of the loop over responses
AccuracyStep(acc, resp) == Classify(acc, resp, ExtractAnswer(resp))

RECURSIVE AccuracyLoop(_, _)
\* correct, no_answer and errors after the first k responses
AccuracyLoop(resps, k) ==
    IF k = 0 THEN [correct |-> 0, no_answer |-> 0, errors |-> <<>>]
    ELSE AccuracyStep(AccuracyLoop(resps, k - 1), resps[k])

\* the dictionary returned, were incorrect computed as total - correct
AccuracyResultsNoAnswerKept(total, acc) ==
    [total_responses |-> total,
     correct |-> acc.correct,
     incorrect |-> total - acc.correct,
     no_answer |-> acc.no_answer,
     accuracy |-> IF total > 0 THEN Float(acc.correct, total) ELSE Float(0, 1),
     errors |-> acc.errors]

\* the dictionary returned, were accuracy taken over the answered responses only
AccuracyResultsOfAnswered(total, acc) ==
    [total_responses |-> total,
     correct |-> acc.correct,
     incorrect |-> total - acc.correct - acc.no_answer,
     no_answer |-> acc.no_answer,
     accuracy |-> IF total - acc.no_answer > 0
                  THEN Float(acc.correct, total - acc.no_answer) ELSE Float(0, 1),
     errors |-> acc.errors]

\* the dictionary returned, for the loop's final correct, no_answer and errors
AccuracyResults(total, acc) ==
    [total_responses |-> total,
     correct |-> acc.correct,
     incorrect |-> total - acc.correct - acc.no_answer,
     no_answer |-> acc.no_answer,
     accuracy |-> IF total > 0 THEN Float(acc.correct, total) ELSE Float(0, 1),
     errors |-> acc.errors]

calculate_accuracy(resps) ==
    Returned(AccuracyResults(Len(resps), AccuracyLoop(resps, Len(resps))))

-----------------------------------------------------------------------------
(* ConsistencyEvaluator.calculate_consistency *)

VersionTypes == <<"direct", "contextualized", "variation">>

\* the keys of by_question, in insertion order
QuestionKeys(resps) == FirstSeen([i \in DOMAIN resps |-> resps[i].question_id])

\* the keys of by_question[qid], in insertion order
VersionKeys(resps, qid) ==
    LET mine == SelectSeq(resps, LAMBDA r : r.question_id = qid)
    IN  FirstSeen([i \in DOMAIN mine |-> mine[i].version_type])

\* the extracted values of the responses at the indices given, in input order
ExtractedAt(resps, indices) == [k \in DOMAIN indices |-> ExtractAnswer(resps[indices[k]])]

\* the indices of the responses of question qid and the version given
IndicesOf(resps, qid, version) ==
    SelectSeq([i \in DOMAIN resps |-> i],
              LAMBDA i : resps[i].question_id = qid /\ resps[i].version_type = version)

\* by_question after the loop that fills it
by_question(resps) ==
    [qid \in Range(QuestionKeys(resps)) |->
        [version \in Range(VersionKeys(resps, qid)) |->
            ExtractedAt(resps, IndicesOf(resps, qid, version))]]

\* where x comes when a set holding it is iterated
SetPosition(x) == CHOOSE i \in DOMAIN set_order : set_order[i] = x

\* the representative, were it the first answer of the list
MostCommonFirst(answers) == answers[1]

\* max(set(answers), key=answers.count): the first element of greatest count
\* in the iteration order of set(answers)
MostCommon(answers) ==
    LET best == {x \in Range(answers) :
                    \A y \in Range(answers) : Count(answers, y) <= Count(answers, x)}
    IN  CHOOSE x \in best : \A y \in best : SetPosition(x) <= SetPosition(y)

\* version_answers, versions being by_question[qid]
VersionAnswers(versions) ==
    [version_type \in {v \in Range(VersionTypes) : v \in DOMAIN versions} |->
        MostCommon(versions[version_type])]

\* the score, were None kept among the unique answers
ParaphraseConsistencyWithNone(version_answers) ==
    IF Cardinality(DOMAIN version_answers) = 3
    THEN LET unique_answers == Range(version_answers)
         IN  IF Cardinality(unique_answers) = 1 THEN Float(1, 1)
             ELSE IF Cardinality(unique_answers) = 2 THEN Float(67, 100)
             ELSE Float(33, 100)
    ELSE Float(0, 1)

\* the score, were it the unrounded ratio 1 / len(unique_answers)
ParaphraseConsistencyRatio(version_answers) ==
    IF Cardinality(DOMAIN version_answers) = 3
    THEN LET unique_answers == Range(version_answers) \ {None}
         IN  IF unique_answers = {} THEN Float(0, 1)
             ELSE Float(1, Cardinality(unique_answers))
    ELSE Float(0, 1)

\* the score, were unique_answers the list of values instead of their set
ParaphraseConsistencyOfList(version_answers) ==
    IF Cardinality(DOMAIN version_answers) = 3
    THEN LET unique_answers == {v \in DOMAIN version_answers : version_answers[v] # None}
         IN  IF Cardinality(unique_answers) = 1 THEN Float(1, 1)
             ELSE IF Cardinality(unique_answers) = 2 THEN Float(67, 100)
             ELSE Float(33, 100)
    ELSE Float(0, 1)

\* the score, were an empty set of unique answers scored 0.0
ParaphraseConsistencyEmptyIsZero(version_answers) ==
    IF Cardinality(DOMAIN version_answers) = 3
    THEN LET unique_answers == Range(version_answers) \ {None}
         IN  IF Cardinality(unique_answers) = 1 THEN Float(1, 1)
             ELSE IF Cardinality(unique_answers) = 2 THEN Float(67, 100)
             ELSE IF Cardinality(unique_answers) = 0 THEN Float(0, 1)
             ELSE Float(33, 100)
    ELSE Float(0, 1)

ParaphraseConsistency(version_answers) ==
    IF Cardinality(DOMAIN version_answers) = 3
    THEN LET unique_answers == Range(version_answers) \ {None}
         IN  IF Cardinality(unique_answers) = 1 THEN Float(1, 1)
             ELSE IF Cardinality(unique_answers) = 2 THEN Float(67, 100)
             ELSE Float(33, 100)
    ELSE Float(0, 1)

\* the consistency, were numerator and denominator exchanged
RetestOfInverted(answers) == Float(Len(answers), Count(answers, MostCommon(answers)))

\* the consistency, were the reference the first element of set(answers)
RetestOfFirstInSet(answers) ==
    LET first == CHOOSE x \in Range(answers) :
                    \A y \in Range(answers) : SetPosition(x) <= SetPosition(y)
    IN  Float(Count(answers, first), Len(answers))

\* the consistency of one version's answers
RetestOf(answers) == Float(Count(answers, MostCommon(answers)), Len(answers))

\* the list, were a version with a single repetition scored too
RetestConsistenciesOfAll(versions, keys) ==
    LET many == SelectSeq(keys, LAMBDA v : Len(versions[v]) > 0)
    IN  [i \in DOMAIN many |-> RetestOf(versions[many[i]])]

\* the list retest_consistencies, keys being the keys of versions in order
RetestConsistencies(versions, keys) ==
    LET many == SelectSeq(keys, LAMBDA v : Len(versions[v]) > 1)
    IN  [i \in DOMAIN many |-> RetestOf(versions[many[i]])]

AvgRetestConsistency(retest_consistencies) ==
    IF retest_consistencies # <<>>
    THEN FDivInt(FSum(retest_consistencies), Len(retest_consistencies))
    ELSE Float(0, 1)

\* the entry, were the division by 2 applied to the retest term alone
ConsistencyScoreHalfRetest(qid, versions, keys) ==
    LET version_answers == VersionAnswers(versions)
        paraphrase_consistency == ParaphraseConsistency(version_answers)
        avg_retest_consistency == AvgRetestConsistency(RetestConsistencies(versions, keys))
        ocs == FAdd(paraphrase_consistency, FDivInt(avg_retest_consistency, 2))
    IN  [question_id |-> qid,
         paraphrase_consistency |-> paraphrase_consistency,
         retest_consistency |-> avg_retest_consistency,
         overall_consistency_score |-> ocs,
         version_answers |-> version_answers]

\* the entry appended to consistency_scores for qid
ConsistencyScore(qid, versions, keys) ==
    LET version_answers == VersionAnswers(versions)
        paraphrase_consistency == ParaphraseConsistency(version_answers)
        avg_retest_consistency == AvgRetestConsistency(RetestConsistencies(versions, keys))
        ocs == FDivInt(FAdd(paraphrase_consistency, avg_retest_consistency), 2)
    IN  [question_id |-> qid,
         paraphrase_consistency |-> paraphrase_consistency,
         retest_consistency |-> avg_retest_consistency,
         overall_consistency_score |-> ocs,
         version_answers |-> version_answers]

\* consistency_scores, one entry per key of by_question
ConsistencyScores(resps, groups) ==
    LET keys == QuestionKeys(resps)
    IN  [i \in DOMAIN keys |->
            ConsistencyScore(keys[i], groups[keys[i]], VersionKeys(resps, keys[i]))]

\* the average, were the sum divided by the number of responses
AverageOverResponses(consistency_scores, metric) ==
    FDivInt(FSum([i \in DOMAIN consistency_scores |-> consistency_scores[i][metric]]),
            Len(responses))

\* sum(s[metric] for s in consistency_scores) / len(consistency_scores)
Average(consistency_scores, metric) ==
    FDivInt(FSum([i \in DOMAIN consistency_scores |-> consistency_scores[i][metric]]),
            Len(consistency_scores))

\* the averages over consistency_scores and the dictionary returned
ConsistencyResults(consistency_scores) ==
    IF Len(consistency_scores) = 0 THEN Raised("ZeroDivisionError")
    ELSE Returned(
        [per_question |-> consistency_scores,
         average_paraphrase_consistency |->
            Average(consistency_scores, "paraphrase_consistency"),
         average_retest_consistency |->
            Average(consistency_scores, "retest_consistency"),
         average_overall_consistency_score |->
            Average(consistency_scores, "overall_consistency_score")])

calculate_consistency(resps) ==
    ConsistencyResults(ConsistencyScores(resps, by_question(resps)))

-----------------------------------------------------------------------------
(* ConsistencyEvaluator.analyze_errors *)

\* the branch, were the test for a missing extraction left out
OutcomeOfWithoutNone(resp, extracted_value) ==
    IF is_correct(extracted_value, resp.ground_truth) THEN "correct" ELSE "incorrect"

\* the three-way branch of the loop body, extracted_value being the extraction
OutcomeOf(resp, extracted_value) ==
    IF extracted_value = None THEN "no_answer"
    ELSE IF is_correct(extracted_value, resp.ground_truth) THEN "correct"
    ELSE "incorrect"

\* the branch each response takes
Outcomes(resps) == [i \in DOMAIN resps |-> OutcomeOf(resps[i], ExtractAnswer(resps[i]))]

\* resp.get(key, "unknown")
GetOrUnknown(resp, key) == IF key \in DOMAIN resp THEN resp[key] ELSE "unknown"

\* how many responses filed under k took the branch o
Tally(resps, outcomes, key, k, o) ==
    Cardinality({i \in DOMAIN resps :
                    GetOrUnknown(resps[i], key) = k /\ outcomes[i] = o})

\* by_category (key "category") or by_operation (key "operation") after the loop
Breakdown(resps, outcomes, key) ==
    [k \in {GetOrUnknown(resps[i], key) : i \in DOMAIN resps} |->
        [correct |-> Tally(resps, outcomes, key, k, "correct"),
         incorrect |-> Tally(resps, outcomes, key, k, "incorrect"),
         no_answer |-> Tally(resps, outcomes, key, k, "no_answer")]]

\* error_types after the loop: a key exists once it has been incremented
ErrorTypes(outcomes) ==
    LET branch(k) == IF k = "no_answer" THEN "no_answer" ELSE "incorrect"
    IN  [k \in {x \in {"no_answer", "incorrect_calculation"} :
                    Count(outcomes, branch(x)) > 0} |-> Count(outcomes, branch(k))]

ErrorAnalysis(resps, outcomes) ==
    [error_types |-> ErrorTypes(outcomes),
     by_category |-> Breakdown(resps, outcomes, "category"),
     by_operation |-> Breakdown(resps, outcomes, "operation")]

analyze_errors(resps) == Returned(ErrorAnalysis(resps, Outcomes(resps)))

-----------------------------------------------------------------------------
(* ConsistencyEvaluator.generate_report *)

\* the report composed of what the three calls returned; an exception of a
\* call leaves generate_report at once
Report(resps, accuracy_results, consistency_results, error_analysis) ==
    IF accuracy_results.raised # "" THEN accuracy_results
    ELSE IF consistency_results.raised # "" THEN consistency_results
    ELSE IF error_analysis.raised # "" THEN error_analysis
    ELSE Returned([accuracy |-> accuracy_results.value,
                   consistency |-> consistency_results.value,
                   error_analysis |-> error_analysis.value,
                   total_responses |-> Len(resps)])

generate_report(resps) ==
    Report(resps, calculate_accuracy(resps), calculate_consistency(resps),
           analyze_errors(resps))

-----------------------------------------------------------------------------
(* The evaluation runs: a list of responses is collected, an evaluator is   *)
(* constructed, and its methods are called on the list.                    *)

Init ==
    /\ text = None
    /\ extracted = NotCalled
    /\ responses \in InitialResponses
    /\ tolerance = None
    /\ set_order = <<>>
    /\ result = NotCalled
    /\ tester = NotCalled
    /\ frame = None
    /\ log = <<>>
    /\ all_responses = <<>>
    /\ temp_file = None

\* where a response comes in the order batch_query queries: by question,
\* then by version
IndexIn(seq, x) == IF x \in Range(seq) THEN CHOOSE i \in DOMAIN seq : seq[i] = x ELSE 0
BatchSlot(resp) ==
    3 * IndexIn(Questions, resp.question_id) + IndexIn(VersionTypes, resp.version_type)

\* the versions the list holds responses of: all three of q1, the first of q2
VersionsAsked(qid) == IF qid = "q1" THEN Range(VersionTypes) ELSE {"direct"}

\* one more response dictionary joins the list, in batch_query's order
Receive(qid, version, answer) ==
    /\ tolerance = None
    /\ Len(responses) < MaxResponses
    /\ responses # <<>> =>
            BatchSlot(responses[Len(responses)]) <= BatchSlot(Response(qid, version, answer))
    /\ responses' = Append(responses, Response(qid, version, answer))
    /\ UNCHANGED <<text, extracted, tolerance, set_order, result, api_vars>>

\* ConsistencyEvaluator.__init__, in an interpreter whose sets iterate in some
\* fixed order
Construct(tol) ==
    /\ tolerance = None
    /\ tolerance' = tol
    /\ set_order' \in Orders(ValuesIn(responses))
    /\ UNCHANGED <<text, extracted, responses, result, api_vars>>

CalculateAccuracy ==
    /\ tolerance # None
    /\ IF result = NotCalled THEN TRUE ELSE result.op = "calculate_accuracy"
    /\ result' = Call("calculate_accuracy", calculate_accuracy(responses))
    /\ UNCHANGED <<text, extracted, responses, tolerance, set_order, api_vars>>

CalculateConsistency ==
    /\ tolerance # None
    /\ IF result = NotCalled THEN TRUE ELSE result.op = "calculate_consistency"
    /\ result' = Call("calculate_consistency", calculate_consistency(responses))
    /\ UNCHANGED <<text, extracted, responses, tolerance, set_order, api_vars>>

\* the call, were the missing keys written into the dictionaries (setdefault)
AnalyzeErrorsSettingDefault ==
    /\ tolerance # None
    /\ IF result = NotCalled THEN TRUE ELSE result.op = "analyze_errors"
    /\ result' = Call("analyze_errors", analyze_errors(responses))
    /\ responses' = [i \in DOMAIN responses |->
            [k \in DOMAIN responses[i] \cup {"operation"} |->
                IF k \in DOMAIN responses[i] THEN responses[i][k] ELSE "unknown"]]
    /\ UNCHANGED <<text, extracted, tolerance, set_order, api_vars>>

AnalyzeErrors ==
    /\ tolerance # None
    /\ IF result = NotCalled THEN TRUE ELSE result.op = "analyze_errors"
    /\ result' = Call("analyze_errors", analyze_errors(responses))
    /\ UNCHANGED <<text, extracted, responses, tolerance, set_order, api_vars>>

\* the call, were the sets of each call to iterate in an order of their own
GenerateReportReordering ==
    /\ tolerance # None
    /\ IF result = NotCalled THEN TRUE ELSE result.op = "generate_report"
    /\ result' = Call("generate_report", generate_report(responses))
    /\ set_order' \in Orders(ValuesIn(responses))
    /\ UNCHANGED <<text, extracted, responses, tolerance, api_vars>>

GenerateReport ==
    /\ tolerance # None
    /\ IF result = NotCalled THEN TRUE ELSE result.op = "generate_report"
    /\ result' = Call("generate_report", generate_report(responses))
    /\ UNCHANGED <<text, extracted, responses, tolerance, set_order, api_vars>>

Next ==
    \/ \E qid \in Range(Questions) :
            \E version \in VersionsAsked(qid), answer \in AnswerTexts :
                Receive(qid, version, answer)
    \/ \E tol \in Tolerances : Construct(tol)
    \/ CalculateAccuracy
    \/ CalculateConsistency
    \/ AnalyzeErrors
    \/ GenerateReport

Spec == Init /\ [][Next]_vars

-----------------------------------------------------------------------------
(* What the properties below read off a state *)

\* the extraction of the i-th response
Extraction(i) == ExtractAnswer(responses[i])

\* |e - g| <= tolerance, by cross-multiplication
Within(e, g) ==
    IF e = None THEN FALSE
    ELSE /\ (e.n * g.d - g.n * e.d) * tolerance.d <= tolerance.n * e.d * g.d
         /\ (g.n * e.d - e.n * g.d) * tolerance.d <= tolerance.n * e.d * g.d

Indices == [i \in DOMAIN responses |-> i]

HasReturned(ops) ==
    IF result = NotCalled THEN FALSE
    ELSE IF result.ret.raised # "" THEN FALSE
    ELSE result.op \in ops

\* the dictionary of calculate_accuracy in the last call's return value
AccuracyReturned == HasReturned({"calculate_accuracy", "generate_report"})
AccuracyValue ==
    IF result.op = "calculate_accuracy" THEN result.ret.value
    ELSE result.ret.value.accuracy

\* the dictionary of calculate_consistency in the last call's return value
ConsistencyReturned == HasReturned({"calculate_consistency", "generate_report"})
ConsistencyValue ==
    IF result.op = "calculate_consistency" THEN result.ret.value
    ELSE result.ret.value.consistency

\* the extracted values of the responses of question qid and version v, in order
ExtractionsOf(qid, v) ==
    LET mine == SelectSeq(Indices, LAMBDA i : /\ responses[i].question_id = qid
                                              /\ responses[i].version_type = v)
    IN  [k \in DOMAIN mine |-> Extraction(mine[k])]

Zero == Float(0, 1)

-----------------------------------------------------------------------------
(* C1: extract_number applied to the thousands-separated text of Scenario E *)
(* (zong ji 12,345.6 yuan) returns 12345.6, the whole grouped numeral.      *)
C1_ScenarioE ==
    (text = Str(ScenarioE) /\ extracted # NotCalled) => extracted = Float(123456, 10)

(* C2: an evaluation call (generate_report, calculate_consistency,          *)
(* calculate_accuracy) on an empty list of responses raises nothing and     *)
(* returns accuracy 0.0 and the three consistency averages 0.0.             *)
C2_EmptyListGraceful ==
    (responses = <<>> /\ result # NotCalled) =>
        /\ result.ret.raised = ""
        /\ AccuracyReturned => AccuracyValue.accuracy = Zero
        /\ ConsistencyReturned =>
            /\ ConsistencyValue.average_paraphrase_consistency = Zero
            /\ ConsistencyValue.average_retest_consistency = Zero
            /\ ConsistencyValue.average_overall_consistency_score = Zero

\* some match of patterns[p] starts somewhere in s
HasMatch(p, s) == \E i \in 1..Len(s) : MatchAt(p, s, i) # NoMatch

\* the capture group of the match of patterns[p] that starts leftmost in s
LeftmostGroup(p, s) ==
    LET i == CHOOSE x \in 1..Len(s) :
                /\ MatchAt(p, s, x) # NoMatch
                /\ \A y \in 1..(x - 1) : MatchAt(p, s, y) = NoMatch
        m == MatchAt(p, s, i)
    IN  SubSeq(s, m.gs, m.ge - 1)

(* C3: for every non-empty text, extract_number returns the value of the    *)
(* first rule, in the listed order, that has at least one match, and within *)
(* that rule the value of the leftmost match, wherever the matches of later *)
(* rules lie; it returns None when no rule matches.                         *)
C3_FirstRuleLeftmost ==
    (extracted # NotCalled /\ text # None) =>
        (text.str # <<>> =>
            LET s == text.str
                rules == {p \in 1..NumPatterns : HasMatch(p, s)}
            IN  IF rules = {} THEN extracted = None
                ELSE LET first == CHOOSE p \in rules : \A q \in rules : p <= q
                     IN  extracted = float(replace_commas(LeftmostGroup(first, s))))

\* a unit-suffix match lies left of the answer-phrase match, which wins
C3_Witness ==
    /\ text = Str(<<"1", "yuan", "shi", "2">>)
    /\ extracted = Float(2, 1)

(* C4: calculate_accuracy puts each response in exactly one of correct,     *)
(* incorrect, no_answer, and the counts are non-negative and satisfy        *)
(* correct + incorrect + no_answer = total_responses = len(responses).      *)
C4_CountsPartition ==
    AccuracyReturned =>
        LET a == AccuracyValue
            absent == {i \in DOMAIN responses : Extraction(i) = None}
            right == {i \in DOMAIN responses :
                        Within(Extraction(i), responses[i].ground_truth)}
            wrong == (DOMAIN responses \ absent) \ right
        IN  /\ a.correct = Cardinality(right)
            /\ a.incorrect = Cardinality(wrong)
            /\ a.no_answer = Cardinality(absent)
            /\ a.correct >= 0 /\ a.incorrect >= 0 /\ a.no_answer >= 0
            /\ a.correct + a.incorrect + a.no_answer = a.total_responses
            /\ a.total_responses = Len(responses)

C4_Witness ==
    /\ AccuracyReturned
    /\ AccuracyValue.correct = 1
    /\ AccuracyValue.incorrect = 1
    /\ AccuracyValue.no_answer = 1

\* the ErrorEntry the i-th response is due when it is not correct
ExpectedError(i) ==
    [question_id |-> responses[i].question_id,
     version |-> responses[i].version_type,
     ground_truth |-> responses[i].ground_truth,
     extracted |-> Extraction(i),
     response |-> responses[i].answer,
     error_type |-> IF Extraction(i) = None THEN "no_answer_found"
                                            ELSE "incorrect_answer"]

(* C5: calculate_accuracy appends exactly one ErrorEntry for each response  *)
(* classified no_answer or incorrect and none for a correct one, in input   *)
(* order: len(errors) = incorrect + no_answer, and an entry is              *)
(* no_answer_found with extracted None exactly when the extraction is       *)
(* absent, incorrect_answer with the extracted value otherwise.             *)
C5_OneErrorPerMiss ==
    AccuracyReturned =>
        LET a == AccuracyValue
            missed == SelectSeq(Indices,
                        LAMBDA i : ~Within(Extraction(i), responses[i].ground_truth))
        IN  /\ a.errors = [k \in DOMAIN missed |-> ExpectedError(missed[k])]
            /\ Len(a.errors) = a.incorrect + a.no_answer

\* a correct response between an unanswered and an incorrect one
C5_Witness ==
    /\ AccuracyReturned
    /\ Len(responses) = 3
    /\ Len(AccuracyValue.errors) = 2
    /\ AccuracyValue.errors[1].error_type = "no_answer_found"
    /\ AccuracyValue.errors[2].error_type = "incorrect_answer"
    /\ Within(Extraction(2), responses[2].ground_truth)

\* an answer that is absent, empty or holds no digit
NoNumeral(answer) ==
    IF answer = None THEN TRUE
    ELSE \A k \in DOMAIN answer.str : ~IsDigit(answer.str[k])

(* C6: a response whose answer is absent (None), empty or without a numeral *)
(* (wo bu zhi dao) never makes the evaluator raise: its extraction is None, *)
(* and it is counted as no_answer with an ErrorEntry of type                *)
(* no_answer_found, whatever the ground truth.                              *)
C6_NoNumeralIsNoAnswer ==
    LET blank == {i \in DOMAIN responses : NoNumeral(responses[i].answer)}
    IN  (result # NotCalled /\ blank # {}) =>
            /\ result.ret.raised = ""
            /\ \A i \in blank : Extraction(i) = None
            /\ AccuracyReturned =>
                /\ AccuracyValue.no_answer >= Cardinality(blank)
                /\ \A i \in blank :
                        \E k \in DOMAIN AccuracyValue.errors :
                            /\ AccuracyValue.errors[k] = ExpectedError(i)
                            /\ AccuracyValue.errors[k].error_type = "no_answer_found"
                            /\ AccuracyValue.errors[k].extracted = None
            /\ HasReturned({"analyze_errors"}) =>
                \A i \in blank :
                    result.ret.value.by_category[responses[i].category].no_answer >= 1

\* the three kinds of blank answer, evaluated
C6_Witness ==
    /\ responses = NoNumeralResponses
    /\ AccuracyReturned
    /\ AccuracyValue.no_answer = 3

(* C7: is_correct is false whenever the extracted value is absent, and      *)
(* otherwise true exactly when |extracted - ground_truth| <= tolerance, the *)
(* bound included; every comparison of one evaluator uses the same          *)
(* tolerance.                                                               *)
C7_WithinTolerance ==
    tolerance # None =>
        /\ \A i \in DOMAIN responses :
                /\ ~is_correct(None, responses[i].ground_truth)
                /\ is_correct(Extraction(i), responses[i].ground_truth)
                        = Within(Extraction(i), responses[i].ground_truth)
        /\ AccuracyReturned =>
                AccuracyValue.correct =
                    Cardinality({i \in DOMAIN responses :
                        Within(Extraction(i), responses[i].ground_truth)})

\* an extraction exactly tolerance away from the ground truth counts as correct
C7_Witness ==
    /\ AccuracyReturned
    /\ tolerance = Float(1, 1)
    /\ Len(responses) = 1
    /\ Extraction(1) = Float(2, 1)
    /\ responses[1].ground_truth = Float(1, 1)
    /\ AccuracyValue.correct = 1

\* the versions of question qid that have a response
VersionsWithResponse(qid) ==
    {v \in Range(VersionTypes) :
        \E i \in DOMAIN responses : /\ responses[i].question_id = qid
                                    /\ responses[i].version_type = v}

\* the distinct representative values of an entry, None excluded
DistinctRepresentatives(entry) ==
    {entry.version_answers[v] : v \in DOMAIN entry.version_answers} \ {None}

(* C8: for every question, paraphrase consistency is 0.0 when one of the    *)
(* versions direct, contextualized, variation has no response; otherwise,   *)
(* with U the distinct representative values of the three versions, None    *)
(* excluded, it is 1.0 if |U| = 1, 0.67 if |U| = 2, 0.33 if |U| >= 3.       *)
C8_ParaphraseScore ==
    ConsistencyReturned =>
        \A k \in DOMAIN ConsistencyValue.per_question :
            LET entry == ConsistencyValue.per_question[k]
                U == DistinctRepresentatives(entry)
            IN  IF VersionsWithResponse(entry.question_id) # Range(VersionTypes)
                THEN entry.paraphrase_consistency = Zero
                ELSE /\ DOMAIN entry.version_answers = Range(VersionTypes)
                     /\ Cardinality(U) = 1 => entry.paraphrase_consistency = Float(1, 1)
                     /\ Cardinality(U) = 2 => entry.paraphrase_consistency = Float(67, 100)
                     /\ Cardinality(U) >= 3 => entry.paraphrase_consistency = Float(33, 100)

\* three versions, one of them represented by None, the other two agreeing
C8_Witness ==
    /\ ConsistencyReturned
    /\ \E k \in DOMAIN ConsistencyValue.per_question :
            LET entry == ConsistencyValue.per_question[k]
            IN  /\ DOMAIN entry.version_answers = Range(VersionTypes)
                /\ None \in {entry.version_answers[v] : v \in Range(VersionTypes)}
                /\ Cardinality(DistinctRepresentatives(entry)) = 1
                /\ entry.paraphrase_consistency = Float(1, 1)

(* C9: for every list of responses and every question, the reported         *)
(* paraphrase_consistency is one of the four values 0.0, 0.33, 0.67, 1.0.   *)
C9_ParaphraseValues ==
    ConsistencyReturned =>
        \A k \in DOMAIN ConsistencyValue.per_question :
            ConsistencyValue.per_question[k].paraphrase_consistency
                \in {Zero, Float(33, 100), Float(67, 100), Float(1, 1)}

C9_Witness ==
    /\ ConsistencyReturned
    /\ \E k \in DOMAIN ConsistencyValue.per_question :
            ConsistencyValue.per_question[k].paraphrase_consistency = Float(67, 100)

\* every representative of the entries is a most frequent extraction of its version
RepresentativesAreModes ==
    ConsistencyReturned =>
        \A k \in DOMAIN ConsistencyValue.per_question :
            LET entry == ConsistencyValue.per_question[k]
            IN  /\ DOMAIN entry.version_answers = VersionsWithResponse(entry.question_id)
                /\ \A v \in DOMAIN entry.version_answers :
                     LET answers == ExtractionsOf(entry.question_id, v)
                         times(x) == Cardinality({j \in DOMAIN answers : answers[j] = x})
                     IN  /\ entry.version_answers[v] \in Range(answers)
                         /\ \A x \in Range(answers) :
                                times(x) <= times(entry.version_answers[v])

\* a call repeated on the same list reports the same representatives
SameRepresentativesAgain ==
    (ConsistencyReturned /\ ConsistencyReturned' /\ responses' = responses) =>
        \A k \in DOMAIN ConsistencyValue.per_question :
            ConsistencyValue'.per_question[k].version_answers
                = ConsistencyValue.per_question[k].version_answers

ModeCount(answers) ==
    LET times(x) == Cardinality({j \in DOMAIN answers : answers[j] = x})
    IN  CHOOSE n \in 1..Len(answers) :
            /\ \E x \in Range(answers) : times(x) = n
            /\ \A x \in Range(answers) : times(x) <= n

\* the mean of a sequence of numbers, 0 for the empty sequence
MeanOf(seq) == IF seq = <<>> THEN Zero ELSE FDivInt(FSum(seq), Len(seq))

\* the versions of question qid with at least two repetitions
RepeatedVersions(qid) ==
    SelectSeq(VersionTypes, LAMBDA v : Len(ExtractionsOf(qid, v)) >= 2)

\* the retest score of each version of qid with at least two repetitions
RetestScores(qid) ==
    LET many == RepeatedVersions(qid)
    IN  [k \in DOMAIN many |->
            Float(ModeCount(ExtractionsOf(qid, many[k])),
                  Len(ExtractionsOf(qid, many[k])))]

(* C11: the retest consistency of a question is the mean, over its versions *)
(* with at least 2 repetitions, of (repetitions equal to the version's      *)
(* mode) / (repetitions); versions with 0 or 1 repetition are left out of   *)
(* the mean, and the result is 0.0 when no version has 2 repetitions.       *)
C11_RetestIsMeanOverRepeated ==
    ConsistencyReturned =>
        \A k \in DOMAIN ConsistencyValue.per_question :
            LET entry == ConsistencyValue.per_question[k]
            IN  entry.retest_consistency = MeanOf(RetestScores(entry.question_id))

\* one version repeated with two different answers, another with a single answer
C11_Witness ==
    /\ ConsistencyReturned
    /\ \E k \in DOMAIN ConsistencyValue.per_question :
            LET entry == ConsistencyValue.per_question[k]
            IN  /\ Len(RepeatedVersions(entry.question_id)) = 1
                /\ Cardinality(VersionsWithResponse(entry.question_id)) = 2
                /\ entry.retest_consistency = Float(1, 2)

(* C12: Scenario D: for one question whose direct version always extracts   *)
(* 100, contextualized always 50 and variation always 200, 3 repetitions    *)
(* each, calculate_consistency reports paraphrase consistency 0.33, retest  *)
(* consistency 1.0 and overall consistency score 0.67.                      *)
C12_ScenarioD ==
    (responses = ScenarioDResponses /\ ConsistencyReturned) =>
        /\ Len(ConsistencyValue.per_question) = 1
        /\ ConsistencyValue.per_question[1].paraphrase_consistency = Float(33, 100)
        /\ ConsistencyValue.per_question[1].retest_consistency = Float(1, 1)
        /\ ConsistencyValue.per_question[1].overall_consistency_score = Float(67, 100)

(* C13: for every question, overall_consistency_score is exactly            *)
(* (paraphrase_consistency + retest_consistency) / 2 of the same entry.     *)
C13_OcsIsMean ==
    ConsistencyReturned =>
        \A k \in DOMAIN ConsistencyValue.per_question :
            LET p == ConsistencyValue.per_question[k].paraphrase_consistency
                r == ConsistencyValue.per_question[k].retest_consistency
                ocs == ConsistencyValue.per_question[k].overall_consistency_score
            IN  2 * ocs.n * p.d * r.d = (p.n * r.d + r.n * p.d) * ocs.d

\* an entry whose two terms differ: 0.0 and 0.5 give 0.25
C13_Witness ==
    /\ ConsistencyReturned
    /\ \E k \in DOMAIN ConsistencyValue.per_question :
            /\ ConsistencyValue.per_question[k].paraphrase_consistency = Zero
            /\ ConsistencyValue.per_question[k].retest_consistency = Float(1, 2)
            /\ ConsistencyValue.per_question[k].overall_consistency_score = Float(1, 4)

\* 0 <= x <= 1
InUnitInterval(x) == 0 <= x.n /\ x.n <= x.d

(* C14: for every list of responses, every per-question retest_consistency  *)
(* and overall_consistency_score, and the three global averages, lie in     *)
(* the closed interval [0, 1].                                              *)
C14_ScoresInUnitInterval ==
    ConsistencyReturned =>
        /\ \A k \in DOMAIN ConsistencyValue.per_question :
                /\ InUnitInterval(ConsistencyValue.per_question[k].retest_consistency)
                /\ InUnitInterval(ConsistencyValue.per_question[k].overall_consistency_score)
        /\ InUnitInterval(ConsistencyValue.average_paraphrase_consistency)
        /\ InUnitInterval(ConsistencyValue.average_retest_consistency)
        /\ InUnitInterval(ConsistencyValue.average_overall_consistency_score)

\* both ends of the interval are attained by entries, and an average lies inside
C14_Witness ==
    /\ ConsistencyReturned
    /\ Len(ConsistencyValue.per_question) = 2
    /\ ConsistencyValue.per_question[1].retest_consistency = Float(1, 1)
    /\ ConsistencyValue.per_question[2].retest_consistency = Zero
    /\ ConsistencyValue.average_retest_consistency = Float(1, 2)

\* question qid has all three versions, each repeated, and all its answers
\* extract to one and the same number
AllAgree(qid) ==
    /\ \A v \in Range(VersionTypes) : Len(ExtractionsOf(qid, v)) >= 2
    /\ \E x \in Range(ExtractionsOf(qid, "direct")) :
            /\ x # None
            /\ \A v \in Range(VersionTypes) : Range(ExtractionsOf(qid, v)) = {x}

(* C15: if a question has responses for all three versions, each version    *)
(* with at least 2 repetitions, and every answer extracts to the same value *)
(* (100 in Scenario C), then its paraphrase consistency, retest consistency *)
(* and overall consistency score are all 1.0.                               *)
C15_AllAgreeScoresOne ==
    ConsistencyReturned =>
        \A k \in DOMAIN ConsistencyValue.per_question :
            LET entry == ConsistencyValue.per_question[k]
            IN  AllAgree(entry.question_id) =>
                    /\ entry.paraphrase_consistency = Float(1, 1)
                    /\ entry.retest_consistency = Float(1, 1)
                    /\ entry.overall_consistency_score = Float(1, 1)

\* Scenario C evaluated
C15_Witness ==
    /\ responses = ScenarioCResponses
    /\ ConsistencyReturned
    /\ AllAgree("q1")
    /\ ConsistencyValue.per_question[1].version_answers["variation"] = Float(100, 1)
    /\ ConsistencyValue.per_question[1].overall_consistency_score = Float(1, 1)

\* the values of one metric over the per-question entries
MetricOf(metric) ==
    [k \in DOMAIN ConsistencyValue.per_question |-> ConsistencyValue.per_question[k][metric]]

(* C16: calculate_consistency returns exactly one per-question entry for    *)
(* each distinct question_id of the input (none for other ids), and each    *)
(* global average is the unweighted mean of the per-question metric over    *)
(* those entries, however many responses each question has.                 *)
C16_OneEntryPerQuestion ==
    ConsistencyReturned =>
        LET entries == ConsistencyValue.per_question
        IN  /\ {entries[k].question_id : k \in DOMAIN entries}
                    = {responses[i].question_id : i \in DOMAIN responses}
            /\ \A j, k \in DOMAIN entries :
                    entries[j].question_id = entries[k].question_id => j = k
            /\ ConsistencyValue.average_paraphrase_consistency
                    = MeanOf(MetricOf("paraphrase_consistency"))
            /\ ConsistencyValue.average_retest_consistency
                    = MeanOf(MetricOf("retest_consistency"))
            /\ ConsistencyValue.average_overall_consistency_score
                    = MeanOf(MetricOf("overall_consistency_score"))

\* two questions, two responses of the first and one of the second, weigh the same
C16_Witness ==
    /\ ConsistencyReturned
    /\ Len(responses) = 3
    /\ responses[2].question_id = "q1"
    /\ responses[3].question_id = "q2"
    /\ Len(ConsistencyValue.per_question) = 2
    /\ ConsistencyValue.per_question[1].overall_consistency_score = Float(1, 2)
    /\ ConsistencyValue.per_question[2].overall_consistency_score = Zero
    /\ ConsistencyValue.average_overall_consistency_score = Float(1, 4)

(* C17: calculate_accuracy returns accuracy = correct / total_responses,    *)
(* which lies in [0, 1] for every list of responses and is 0.0 when the     *)
(* list is empty.                                                           *)
C17_AccuracyIsRatio ==
    AccuracyReturned =>
        /\ InUnitInterval(AccuracyValue.accuracy)
        /\ IF responses = <<>> THEN AccuracyValue.accuracy = Zero
           ELSE AccuracyValue.accuracy.n * AccuracyValue.total_responses
                    = AccuracyValue.correct * AccuracyValue.accuracy.d

\* one response of three is correct and one has no answer
C17_Witness ==
    /\ AccuracyReturned
    /\ AccuracyValue.total_responses = 3
    /\ AccuracyValue.no_answer = 1
    /\ AccuracyValue.accuracy = Float(1, 3)

\* the dictionary of analyze_errors in the last call's return value
ErrorAnalysisReturned == HasReturned({"analyze_errors", "generate_report"})
ErrorAnalysisValue ==
    IF result.op = "analyze_errors" THEN result.ret.value
    ELSE result.ret.value.error_analysis

RECURSIVE BucketSum(_, _, _)
\* the sum of one counter over the buckets of the keys given
BucketSum(buckets, keys, counter) ==
    IF keys = {} THEN 0
    ELSE LET k == CHOOSE x \in keys : TRUE
         IN  buckets[k][counter] + BucketSum(buckets, keys \ {k}, counter)

\* the bucket the i-th response belongs to, by "category" or "operation"
FiledUnder(i, key) == IF key \in DOMAIN responses[i] THEN responses[i][key] ELSE "unknown"

\* the three classes of calculate_accuracy
ClassOf(i) ==
    IF Extraction(i) = None THEN "no_answer"
    ELSE IF Within(Extraction(i), responses[i].ground_truth) THEN "correct"
    ELSE "incorrect"

\* the buckets hold each response once, under its key and its class
BucketsPartition(buckets, key) ==
    /\ DOMAIN buckets = {FiledUnder(i, key) : i \in DOMAIN responses}
    /\ \A k \in DOMAIN buckets :
        \A c \in {"correct", "incorrect", "no_answer"} :
            buckets[k][c] = Cardinality({i \in DOMAIN responses :
                                            FiledUnder(i, key) = k /\ ClassOf(i) = c})
    /\ \A c \in {"correct", "incorrect", "no_answer"} :
            BucketSum(buckets, DOMAIN buckets, c)
                = Cardinality({i \in DOMAIN responses : ClassOf(i) = c})

(* C18: analyze_errors uses the three-way classification of                 *)
(* calculate_accuracy: for every list, correct, incorrect and no_answer     *)
(* summed over the by_category buckets, and over the by_operation buckets,  *)
(* are the counts of calculate_accuracy, and every response is counted in   *)
(* exactly one category bucket and one operation bucket.                    *)
C18_BreakdownMatchesAccuracy ==
    ErrorAnalysisReturned =>
        /\ BucketsPartition(ErrorAnalysisValue.by_category, "category")
        /\ BucketsPartition(ErrorAnalysisValue.by_operation, "operation")
        /\ HasReturned({"generate_report"}) =>
            \A key \in {"by_category", "by_operation"} :
                \A c \in {"correct", "incorrect", "no_answer"} :
                    BucketSum(ErrorAnalysisValue[key], DOMAIN ErrorAnalysisValue[key], c)
                        = result.ret.value.accuracy[c]

\* a report over two categories with one response of each class
C18_Witness ==
    /\ HasReturned({"generate_report"})
    /\ Cardinality(DOMAIN ErrorAnalysisValue.by_category) = 2
    /\ Cardinality(DOMAIN ErrorAnalysisValue.by_operation) = 2
    /\ result.ret.value.accuracy.correct = 1
    /\ result.ret.value.accuracy.incorrect = 1
    /\ result.ret.value.accuracy.no_answer = 1

\* the i-th response has no operation: the key is missing, or batch_query
\* filled it for a question that has none
HasNoOperation(i) ==
    IF "operation" \in DOMAIN responses[i]
    THEN OperationOf(responses[i].question_id) = "" /\ responses[i].operation = ""
    ELSE TRUE

\* how many responses the bucket k of by_operation holds
HeldBy(by_operation, k) ==
    IF k \in DOMAIN by_operation
    THEN by_operation[k].correct + by_operation[k].incorrect + by_operation[k].no_answer
    ELSE 0

(* C19: in analyze_errors a response with a missing operation is counted in *)
(* the "unknown" bucket of by_operation and is never dropped, the responses *)
(* handed over by batch_query for questions without operation included.     *)
C19_NoOperationIsUnknown ==
    ErrorAnalysisReturned =>
        HeldBy(ErrorAnalysisValue.by_operation, "unknown")
            = Cardinality({i \in DOMAIN responses : HasNoOperation(i)})

\* the last call was generate_report, whether it returned or raised
ReportCalled == IF result = NotCalled THEN FALSE ELSE result.op = "generate_report"

\* the report counts the responses of the list
ReportCountsAll ==
    HasReturned({"generate_report"}) =>
        /\ result.ret.value.total_responses = Len(responses)
        /\ result.ret.value.accuracy.total_responses = Len(responses)

\* generate_report called again on the same list gives what it gave before
SameReportAgain ==
    (ReportCalled /\ ReportCalled' /\ responses' = responses) => result' = result

C21_EvaluatorWritesNothing ==
    [][tolerance # None => (responses' = responses /\ tolerance' = tolerance)]_vars

\* analyze_errors took its default for a key the dictionaries lack
C21_Witness ==
    /\ HasReturned({"analyze_errors"})
    /\ responses = NoOperationResponses
    /\ "unknown" \in DOMAIN result.ret.value.by_operation

(* C27: when a question has responses for all three versions and the       *)
(* representative of every one of them is None, so that no extracted        *)
(* representative remains, calculate_consistency scores its paraphrase      *)
(* consistency 0.33, not 0.0 and not 1.0.                                   *)
C27_NoRepresentativeScoresThird ==
    ConsistencyReturned =>
        \A k \in DOMAIN ConsistencyValue.per_question :
            LET entry == ConsistencyValue.per_question[k]
            IN  (/\ DOMAIN entry.version_answers = Range(VersionTypes)
                 /\ DistinctRepresentatives(entry) = {})
                    => entry.paraphrase_consistency = Float(33, 100)

\* three versions, none of which has an answer with a numeral
C27_Witness ==
    /\ ConsistencyReturned
    /\ responses = NoNumeralResponses
    /\ DistinctRepresentatives(ConsistencyValue.per_question[1]) = {}
    /\ ConsistencyValue.per_question[1].paraphrase_consistency = Float(33, 100)

\* the retest consistency of every repeated version is (greatest count) / n,
\* whichever order the sets iterate in
RetestIgnoresOrder ==
    \A qid \in {responses[i].question_id : i \in DOMAIN responses} :
        \A v \in VersionsWithResponse(qid) :
            LET answers == ExtractionsOf(qid, v)
            IN  Len(answers) >= 2 =>
                    /\ RetestOf(answers) = Float(ModeCount(answers), Len(answers))
                    /\ RetestOf(answers).n * Len(answers) >= RetestOf(answers).d
                    /\ RetestOf(answers) # Zero

\* on the list with a tie between 1 and 2 the paraphrase consistency follows
\* the order of the set, the retest consistency does not
ParaphraseFollowsOrder ==
    (responses = TieResponses /\ ConsistencyReturned) =>
        /\ ConsistencyValue.per_question[1].retest_consistency = Float(1, 2)
        /\ ConsistencyValue.per_question[1].paraphrase_consistency =
                IF SetPosition(Float(1, 1)) < SetPosition(Float(2, 1))
                THEN Float(1, 1) ELSE Float(67, 100)

(* C28: a version's retest consistency does not depend on which of several  *)
(* equally frequent values is chosen as the mode: with n >= 2 repetitions   *)
(* it is (greatest frequency) / n under every tie-break, hence at least     *)
(* 1/n and never 0; paraphrase consistency can differ between two           *)
(* tie-break choices for the same responses.                                *)
C28_RetestIgnoresTieBreak ==
    tolerance # None => (RetestIgnoresOrder /\ ParaphraseFollowsOrder)

\* the tie is broken in favour of 2, which no other version extracts
C28_Witness ==
    /\ responses = TieResponses
    /\ ConsistencyReturned
    /\ set_order = <<Float(2, 1), Float(1, 1)>>
    /\ ConsistencyValue.per_question[1].version_answers["direct"] = Float(2, 1)
    /\ ConsistencyValue.per_question[1].paraphrase_consistency = Float(67, 100)
    /\ ConsistencyValue.per_question[1].retest_consistency = Float(1, 2)

\* the same list where the tie is broken in favour of 1
C28_OtherTieBreak ==
    /\ responses = TieResponses
    /\ ConsistencyReturned
    /\ set_order = <<Float(1, 1), Float(2, 1)>>
    /\ ConsistencyValue.per_question[1].paraphrase_consistency = Float(1, 1)
    /\ ConsistencyValue.per_question[1].retest_consistency = Float(1, 2)

\* the value of the digit a
Units(a) == Float(DigitVal(a), 1)

\* the value of the digits b c d followed by the fraction frac
LastGroup(b, c, d, frac) ==
    IF frac = <<>> THEN Float(100 * DigitVal(b) + 10 * DigitVal(c) + DigitVal(d), 1)
    ELSE Float(1000 * DigitVal(b) + 100 * DigitVal(c) + 10 * DigitVal(d)
                    + DigitVal(frac[2]), 10)

\* a grouped numeral right after an answer phrase yields its leading group,
\* one right before a unit word its last group with the fraction
GroupedIsCut ==
    \A a \in GroupDigits, b \in GroupDigits, c \in GroupDigits, d \in GroupDigits :
        \A frac \in Fractions :
            /\ \A pre \in PhraseBefore :
                    text = Str(pre \o Grouped(a, b, c, d, frac)) => extracted = Units(a)
            /\ \A post \in UnitAfter :
                    text = Str(Grouped(a, b, c, d, frac) \o post)
                        => extracted = LastGroup(b, c, d, frac)

\* the pattern with commas decides only where the three before it match nowhere
CommaRuleIsLast ==
    (text # None /\ text # Str(<<>>)) =>
        LET s == text.str
            earlier == {p \in 1..3 : HasMatch(p, s)}
        IN  IF earlier # {}
            THEN LET first == CHOOSE p \in earlier : \A q \in earlier : p <= q
                 IN  extracted = float(replace_commas(LeftmostGroup(first, s)))
            ELSE IF HasMatch(4, s)
            THEN extracted = float(replace_commas(LeftmostGroup(4, s)))
            ELSE extracted = None

(* C29: the answer-phrase and unit-suffix rules know no thousands separator *)
(* and precede the rule that does, so a grouped numeral right after an      *)
(* answer phrase (da an shi 1,234) is extracted as its leading digit group  *)
(* (1) and one right before a unit word (1,234 yuan) as its last digit      *)
(* group with its fraction (234); the thousands-separated rule is reached   *)
(* only when none of the first three rules matches anywhere in the text.    *)
C29_GroupedNumeralCut ==
    extracted # NotCalled =>
        /\ GroupedIsCut
        /\ CommaRuleIsLast
        /\ text = Str(AfterPhrase) => extracted = Float(1, 1)
        /\ text = Str(BeforeUnit) => extracted = Float(234, 1)
        /\ text = Str(GroupedOnly) => extracted = Float(1234, 1)

\* 2,121.2 yuan is extracted as 121.2
C29_Witness ==
    /\ text = Str(<<"2", ",", "1", "2", "1", ".", "2", " ", "yuan">>)
    /\ extracted = Float(1212, 10)

-----------------------------------------------------------------------------
(* The querying side: LLMTester of api_caller.py and run_queries of        *)
(* run_experiment.py.  Provider names and keys are strings of one word, a  *)
(* model name is the sequence of its words; the names of environment       *)
(* variables and of exceptions are atoms.                                   *)

MaxRetries == 4

\* str.lower() on a word
LowerWord(w) ==
    CASE w = "Claude" -> "claude"
      [] w = "OpenAI" -> "openai"
      [] w = "GPT" -> "gpt"
      [] OTHER -> w

\* x in model_name.lower()
InLower(x, model_name) == \E i \in DOMAIN model_name : LowerWord(model_name[i]) = x

\* provider.lower()
Lower(s) == Str([i \in DOMAIN s.str |-> LowerWord(s.str[i])])

\* bool(v) of a key: None and the empty string are false
Truthy(v) == v # None /\ v # Str(<<>>)

\* the process environment: each API key exported or unset (None)
Environments ==
    [ANTHROPIC_API_KEY : {None, Str(<<"sk-ant">>)},
     OPENAI_API_KEY : {None, Str(<<"sk-oai">>)}]

\* os.getenv(name)
getenv(env, name) == env[name]

ModelNames == {<<"claude", "-", "sonnet", "-", "4", "-", "5">>, <<"gpt", "-", "4o">>, <<"GPT", "-", "3.5", "-", "turbo">>,
               <<"llama", "-", "3">>}

\* the self.provider that __init__ settles on (None where it raises)
DetectProvider(model_name, provider) ==
    IF provider = None
    THEN IF \E x \in {"gpt", "davinci", "turbo"} : InLower(x, model_name) THEN Str(<<"openai">>)
         ELSE IF \E x \in {"claude", "sonnet", "opus", "haiku"} : InLower(x, model_name)
         THEN Str(<<"anthropic">>)
         ELSE None
    ELSE Lower(provider)

\* the client branch of __init__ for the provider settled on: the object with
\* its model_name, provider, api_key and empty responses, or the exception
InitClient(model_name, self_provider, api_key, env) ==
    IF self_provider = Str(<<"anthropic">>)
    THEN LET key == IF Truthy(api_key) THEN api_key ELSE getenv(env, "ANTHROPIC_API_KEY")
         IN  IF ~Truthy(key) THEN Raised("ValueError: API key not found")
             ELSE Returned([model_name |-> model_name, provider |-> self_provider,
                           api_key |-> key, responses |-> <<>>])
    ELSE IF self_provider = Str(<<"openai">>)
    THEN LET key == IF Truthy(api_key) THEN api_key ELSE getenv(env, "OPENAI_API_KEY")
         IN  IF ~Truthy(key) THEN Raised("ValueError: API key not found")
             ELSE Returned([model_name |-> model_name, provider |-> self_provider,
                           api_key |-> key, responses |-> <<>>])
    ELSE Raised("ValueError: Unsupported provider")

\* LLMTester(model_name=..., api_key=..., provider=...) in the environment env
LLMTester(model_name, api_key, provider, env) ==
    IF DetectProvider(model_name, provider) = None THEN Raised("ValueError: Cannot auto-detect provider")
    ELSE InitClient(model_name, DetectProvider(model_name, provider), api_key, env)

\* the attributes of the config module, imported in the environment env
\* (ANTHROPIC_API_KEY is os.getenv("ANTHROPIC_API_KEY", ""))
Config(env) ==
    [ANTHROPIC_API_KEY |-> IF getenv(env, "ANTHROPIC_API_KEY") = None THEN Str(<<>>)
                           ELSE getenv(env, "ANTHROPIC_API_KEY"),
     MODEL_NAME |-> <<"claude", "-", "sonnet", "-", "4", "-", "5">>,
     NUM_REPETITIONS |-> 3,
     TEMPERATURE |-> Float(0, 1)]

\* run_queries up to the construction of the tester, for the claude branch
RunQueriesClaude(provider, config, env) ==
    IF "ANTHROPIC_API_KEY" \notin DOMAIN config THEN Raised("AttributeError")
    ELSE IF ~Truthy(config.ANTHROPIC_API_KEY) THEN Raised("SystemExit")
    ELSE IF "CLAUDE_MODEL" \notin DOMAIN config THEN Raised("AttributeError")
    ELSE LLMTester(config.CLAUDE_MODEL, config.ANTHROPIC_API_KEY, provider, env)

\* the same for the other branch
RunQueriesOpenAI(provider, config, env) ==
    IF "OPENAI_API_KEY" \notin DOMAIN config THEN Raised("AttributeError")
    ELSE IF ~Truthy(config.OPENAI_API_KEY) THEN Raised("SystemExit")
    ELSE IF "OPENAI_MODEL" \notin DOMAIN config THEN Raised("AttributeError")
    ELSE LLMTester(config.OPENAI_MODEL, config.OPENAI_API_KEY, provider, env)

\* run_queries(questions, num_repetitions, provider) up to line 79
run_queries(provider, env) ==
    IF provider = Str(<<"claude">>) THEN RunQueriesClaude(provider, Config(env), env)
    ELSE RunQueriesOpenAI(provider, Config(env), env)

\* the --provider values argparse lets through
ProviderChoices == {Str(<<"claude">>), Str(<<"openai">>)}

\* the provider arguments of direct constructions
ProviderArgs ==
    {None, Str(<<"claude">>), Str(<<"anthropic">>), Str(<<"openai">>), Str(<<"OpenAI">>)}

ApiKeyArgs == {None, Str(<<>>), Str(<<"sk-arg">>)}

-----------------------------------------------------------------------------
(* LLMTester.query: one action per attempt of the retry loop *)

QueryTexts == {Str(<<"1", "+", "1">>), Str(<<"2", "x", "1">>)}
Temperatures == {Float(0, 1), Float(7, 10)}
Errors == {"APIConnectionError", "RateLimitError"}

\* what the provider answers on a call that succeeds
ProviderAnswers == AnswerTexts \ {None}

\* the seconds slept after a failed attempt, were the wait to grow by one
BackoffLinear(attempt) == attempt + 1

\* time.sleep(2 ** attempt): the seconds slept after the failed attempt
Backoff(attempt) == 2 ^ attempt

\* the dictionary of _query_anthropic or _query_openai with the four fields
\* query adds after an attempt that succeeded
SuccessRecord(self, question, temperature, answer) ==
    [question |-> question, answer |-> answer, model |-> self.model_name,
     provider |-> self.provider, temperature |-> temperature,
     response_time |-> "elapsed", timestamp |-> "now", success |-> TRUE,
     error |-> None]

\* the dictionary returned after the last attempt failed
FailureRecord(self, question, temperature, e) ==
    [question |-> question, answer |-> None, model |-> self.model_name,
     provider |-> self.provider, temperature |-> temperature,
     response_time |-> None, timestamp |-> "now", success |-> FALSE,
     error |-> Str(<<e>>)]

TesterCreated == IF tester = NotCalled THEN FALSE ELSE tester.ret.raised = ""
InQuery == IF frame = None THEN FALSE ELSE frame.call = "query" /\ frame.pc = "loop"

\* a direct construction, as in main of api_caller.py
CreateTester(model_name, api_key, provider, env) ==
    /\ tester = NotCalled
    /\ tester' = [op |-> "LLMTester", env |-> env, model_name |-> model_name,
                  api_key |-> api_key, provider |-> provider,
                  ret |-> LLMTester(model_name, api_key, provider, env)]
    /\ UNCHANGED <<text, extracted, responses, tolerance, set_order, result,
                   frame, log, all_responses, temp_file>>

\* run_queries, up to the construction of its tester
RunQueries(provider, env) ==
    /\ tester = NotCalled
    /\ tester' = [op |-> "run_queries", env |-> env, provider |-> provider,
                  ret |-> run_queries(provider, env)]
    /\ UNCHANGED <<text, extracted, responses, tolerance, set_order, result,
                   frame, log, all_responses, temp_file>>

\* tester.query(question, temperature, max_retries) is entered
StartQuery(question, temperature, max_retries) ==
    /\ TesterCreated
    /\ frame = None
    /\ frame' = [call |-> "query", question |-> question, temperature |-> temperature,
                 max_retries |-> max_retries, attempt |-> 0, pc |-> "loop"]
    /\ UNCHANGED <<text, extracted, responses, tolerance, set_order, result,
                   tester, log, all_responses, temp_file>>

\* the provider answers: the try block runs to its return
AttemptSucceeds(answer) ==
    /\ InQuery
    /\ frame.attempt < frame.max_retries
    /\ log' = Append(log, [call |-> frame.attempt, ok |-> TRUE])
    /\ result' = Call("query", Returned(SuccessRecord(tester.ret.value, frame.question,
                                                       frame.temperature, answer)))
    /\ frame' = [frame EXCEPT !.pc = "returned"]
    /\ UNCHANGED <<text, extracted, responses, tolerance, set_order,
                   tester, all_responses, temp_file>>

\* the provider call raises e: the except block returns or sleeps
AttemptFails(e) ==
    /\ InQuery
    /\ frame.attempt < frame.max_retries
    /\ IF frame.attempt = frame.max_retries - 1
       THEN /\ log' = Append(log, [call |-> frame.attempt, ok |-> FALSE])
            /\ result' = Call("query", Returned(FailureRecord(tester.ret.value,
                                    frame.question, frame.temperature, e)))
            /\ frame' = [frame EXCEPT !.pc = "returned"]
       ELSE /\ log' = log \o <<[call |-> frame.attempt, ok |-> FALSE],
                             [sleep |-> Backoff(frame.attempt)]>>
            /\ frame' = [frame EXCEPT !.attempt = @ + 1]
            /\ UNCHANGED result
    /\ UNCHANGED <<text, extracted, responses, tolerance, set_order,
                   tester, all_responses, temp_file>>

\* range(max_retries) is exhausted without a return: the method falls off
\* its end and returns None
LoopExhausted ==
    /\ InQuery
    /\ frame.attempt >= frame.max_retries
    /\ result' = Call("query", Returned(None))
    /\ frame' = [frame EXCEPT !.pc = "returned"]
    /\ UNCHANGED <<text, extracted, responses, tolerance, set_order,
                   tester, log, all_responses, temp_file>>

InitQuery ==
    /\ text = None
    /\ extracted = NotCalled
    /\ responses = <<>>
    /\ tolerance = None
    /\ set_order = <<>>
    /\ result = NotCalled
    /\ tester = NotCalled
    /\ frame = None
    /\ log = <<>>
    /\ all_responses = <<>>
    /\ temp_file = None

NextQuery ==
    \/ \E model_name \in ModelNames, api_key \in ApiKeyArgs, provider \in ProviderArgs,
          env \in Environments : CreateTester(model_name, api_key, provider, env)
    \/ \E provider \in ProviderChoices, env \in Environments : RunQueries(provider, env)
    \/ \E question \in QueryTexts, temperature \in Temperatures,
          max_retries \in 0..MaxRetries : StartQuery(question, temperature, max_retries)
    \/ \E answer \in ProviderAnswers : AttemptSucceeds(answer)
    \/ \E e \in Errors : AttemptFails(e)
    \/ LoopExhausted

SpecQuery == InitQuery /\ [][NextQuery]_vars

-----------------------------------------------------------------------------
(* LLMTester.batch_query: one action per iteration of the innermost loop,  *)
(* followed by evaluate_responses on the list returned.                    *)

MaxRepeat == 2
MaxSaveInterval == 3
MaxFailures == 2

\* the text of a version of a question
VersionText(qid, v) == Str(<<qid, " ", v>>)

\* a question dictionary; q2 carries no "operation"
Question(qid) ==
    IF qid = "q1"
    THEN [id |-> qid, versions |-> [v \in Range(VersionTypes) |-> VersionText(qid, v)],
          ground_truth |-> GroundTruthOf(qid), category |-> CategoryOf(qid),
          operation |-> "addition"]
    ELSE [id |-> qid, versions |-> [v \in Range(VersionTypes) |-> VersionText(qid, v)],
          ground_truth |-> GroundTruthOf(qid), category |-> CategoryOf(qid)]

QuestionLists == {<<>>, <<Question("q1")>>, <<Question("q1"), Question("q2")>>}

\* the tester the batch runs are made with
BatchTesters ==
    {[op |-> "LLMTester", env |-> env, model_name |-> <<"gpt", "-", "4o">>,
      api_key |-> None, provider |-> provider,
      ret |-> LLMTester(<<"gpt", "-", "4o">>, None, provider, env)] :
        provider \in {Str(<<"anthropic">>), Str(<<"openai">>)},
        env \in {e \in Environments : e.ANTHROPIC_API_KEY # None /\ e.OPENAI_API_KEY # None}}

\* what self.query(version_text, temperature=temperature) can return, with
\* its default of three attempts: the dictionary of a success or of a failure
QueryReturns(self, question, temperature) ==
    {SuccessRecord(self, question, temperature, Str(<<"1">>)),
     FailureRecord(self, question, temperature, "RateLimitError")}

\* the queries of all_responses that failed
Failures(all) == {i \in DOMAIN all : ~all[i].success}

\* the position in the three nested loops: question, version, repetition
LoopEnd == [end |-> TRUE]
FirstIteration(questions, repeat) ==
    IF questions = <<>> \/ repeat <= 0 THEN LoopEnd
    ELSE [q_idx |-> 1, v |-> 1, rep |-> 0]

\* the position after it, were the versions the innermost loop
NextIterationVersionInner(questions, repeat, it) ==
    IF it.v < Len(VersionTypes) THEN [it EXCEPT !.v = @ + 1]
    ELSE IF it.rep + 1 < repeat THEN [it EXCEPT !.rep = @ + 1, !.v = 1]
    ELSE IF it.q_idx < Len(questions) THEN [q_idx |-> it.q_idx + 1, v |-> 1, rep |-> 0]
    ELSE LoopEnd

\* the position after it
NextIteration(questions, repeat, it) ==
    IF it.rep + 1 < repeat THEN [it EXCEPT !.rep = @ + 1]
    ELSE IF it.v < Len(VersionTypes) THEN [it EXCEPT !.v = @ + 1, !.rep = 0]
    ELSE IF it.q_idx < Len(questions) THEN [q_idx |-> it.q_idx + 1, v |-> 1, rep |-> 0]
    ELSE LoopEnd

\* the response of a query with the fields batch_query sets on it
Tagged(response, question, version_type, rep) ==
    [k \in DOMAIN response \cup {"question_id", "version_type", "repetition",
                                 "ground_truth", "category", "operation"} |->
        CASE k = "question_id" -> question.id
          [] k = "version_type" -> version_type
          [] k = "repetition" -> rep + 1
          [] k = "ground_truth" -> question.ground_truth
          [] k = "category" -> question.category
          [] k = "operation" ->
                IF "operation" \in DOMAIN question THEN question.operation ELSE ""
          [] OTHER -> response[k]]

\* the list after the iteration, were only the successes appended
AppendedIfSuccess(all, response) == IF response.success THEN Append(all, response) ELSE all

\* all_responses.append(response)
Appended(all, response) == Append(all, response)

\* self._save_responses(all_responses, filename): the file after json.dump in
\* mode 'w'
_save_responses(all) == [content |-> all]

\* the test before a save, were it made on the count before the increment
SaveDueBeforeCount(query_count, save_interval) == (query_count - 1) % save_interval = 0

\* query_count % save_interval == 0
SaveDue(query_count, save_interval) == query_count % save_interval = 0

InBatch == IF frame = None THEN FALSE ELSE frame.call = "batch_query" /\ frame.pc = "loop"

\* tester.batch_query(questions, repeat, temperature, save_interval) is entered
StartBatch(questions, repeat, save_interval) ==
    /\ TesterCreated
    /\ frame = None
    /\ frame' = [call |-> "batch_query", questions |-> questions, repeat |-> repeat,
                 temperature |-> Float(0, 1), save_interval |-> save_interval,
                 query_count |-> 0, it |-> FirstIteration(questions, repeat),
                 pc |-> "loop"]
    /\ all_responses' = <<>>
    /\ UNCHANGED <<text, extracted, responses, tolerance, set_order, result,
                   tester, log, temp_file>>

\* one iteration: the query, the fields, the append, the save when due
BatchIteration ==
    /\ InBatch
    /\ frame.it # LoopEnd
    /\ \E response \in QueryReturns(tester.ret.value,
                frame.questions[frame.it.q_idx].versions[VersionTypes[frame.it.v]],
                frame.temperature) :
          /\ response.success \/ Cardinality(Failures(all_responses)) < MaxFailures
          /\ all_responses' =
                Appended(all_responses,
                         Tagged(response, frame.questions[frame.it.q_idx],
                                VersionTypes[frame.it.v], frame.it.rep))
    /\ temp_file' = IF SaveDue(frame.query_count + 1, frame.save_interval)
                    THEN _save_responses(all_responses') ELSE temp_file
    /\ frame' = [frame EXCEPT !.query_count = @ + 1,
                              !.it = NextIteration(frame.questions, frame.repeat, @)]
    /\ UNCHANGED <<text, extracted, responses, tolerance, set_order, result, tester, log>>

\* the loops are over: return all_responses
BatchReturn ==
    /\ InBatch
    /\ frame.it = LoopEnd
    /\ result' = Call("batch_query", Returned(all_responses))
    /\ frame' = [frame EXCEPT !.pc = "returned"]
    /\ UNCHANGED <<text, extracted, responses, tolerance, set_order,
                   tester, log, all_responses, temp_file>>

\* evaluate_responses(responses) on the list returned, up to the evaluator
\* it constructs with tolerance 0.01; its generate_report is the next step
EvaluateResponses ==
    /\ tolerance = None
    /\ IF result = NotCalled THEN FALSE ELSE result.op = "batch_query"
    /\ responses' = result.ret.value
    /\ tolerance' = Float(1, 100)
    /\ set_order' \in Orders(ValuesIn(result.ret.value))
    /\ result' = NotCalled
    /\ UNCHANGED <<text, extracted, api_vars>>

InitBatch ==
    /\ text = None
    /\ extracted = NotCalled
    /\ responses = <<>>
    /\ tolerance = None
    /\ set_order = <<>>
    /\ result = NotCalled
    /\ tester \in BatchTesters
    /\ frame = None
    /\ log = <<>>
    /\ all_responses = <<>>
    /\ temp_file = None

NextBatch ==
    \/ \E questions \in QuestionLists, repeat \in 0..MaxRepeat,
          save_interval \in 1..MaxSaveInterval :
            StartBatch(questions, repeat, save_interval)
    \/ BatchIteration
    \/ BatchReturn
    \/ EvaluateResponses
    \/ GenerateReport

SpecBatch == InitBatch /\ [][NextBatch]_vars

-----------------------------------------------------------------------------
(* Properties of the querying side *)

QueryCalled == IF frame = None THEN FALSE ELSE frame.call = "query"
QueryReturned == QueryCalled /\ frame.pc = "returned"

\* the log of k failed attempts, each followed by its wait
FailedPrefix(k) ==
    [i \in 1..(2 * k) |->
        IF i % 2 = 1 THEN [call |-> (i - 1) \div 2, ok |-> FALSE]
        ELSE [sleep |-> 2 ^ ((i \div 2) - 1)]]

\* the dictionary of a success, returned right after the first call that succeeded
IsSuccessAfter(rec, k) ==
    /\ rec.success = TRUE
    /\ rec.error = None
    /\ rec.answer \in ProviderAnswers
    /\ log = FailedPrefix(k) \o <<[call |-> k, ok |-> TRUE]>>

\* the dictionary of a failure, returned after max_retries failed calls and no
\* wait after the last
IsFailureAfter(rec, max_retries) ==
    /\ rec.success = FALSE
    /\ rec.answer = None
    /\ rec.error \in {Str(<<e>>) : e \in Errors}
    /\ log = FailedPrefix(max_retries - 1) \o <<[call |-> max_retries - 1, ok |-> FALSE]>>

(* C22: for max_retries >= 1, query makes at most max_retries attempts; it *)
(* returns a success record (success true, error null) right after the     *)
(* first attempt that succeeds, and a failure record (success false,       *)
(* answer null, error set) only after exactly max_retries consecutive      *)
(* failed attempts; it never raises; after failed attempt k (0-based) it   *)
(* has waited 2^k seconds, and it does not wait after the final one.       *)
C22_QueryRetries ==
    (QueryCalled /\ (IF frame = None THEN FALSE ELSE frame.max_retries >= 1)) =>
        IF frame.pc = "loop"
        THEN /\ result = NotCalled
             /\ frame.attempt < frame.max_retries
             /\ log = FailedPrefix(frame.attempt)
        ELSE /\ result.op = "query"
             /\ result.ret.raised = ""
             /\ result.ret.value # None
             /\ IF result.ret.value.success
                THEN frame.attempt < frame.max_retries
                        /\ IsSuccessAfter(result.ret.value, frame.attempt)
                ELSE IsFailureAfter(result.ret.value, frame.max_retries)

\* four attempts failed: waits of 1, 2 and 4 seconds, then the failure record
C22_Witness ==
    /\ QueryReturned
    /\ frame.max_retries = 4
    /\ result.ret.value.success = FALSE
    /\ result.ret.value.answer = None
    /\ log = <<[call |-> 0, ok |-> FALSE], [sleep |-> 1],
               [call |-> 1, ok |-> FALSE], [sleep |-> 2],
               [call |-> 2, ok |-> FALSE], [sleep |-> 4],
               [call |-> 3, ok |-> FALSE]>>

\* the key of the provider chosen is exported
MatchingKeySet(provider, env) ==
    IF provider = Str(<<"claude">>) THEN env.ANTHROPIC_API_KEY # None
    ELSE env.OPENAI_API_KEY # None

(* C26: for each provider value the run script accepts ('claude' and       *)
(* 'openai'), with the matching API key set, run_queries constructs an     *)
(* LLMTester successfully: LLMTester accepts the provider string it is     *)
(* given and does not raise 'Unsupported provider'.                        *)
C26_ProviderChoicesAccepted ==
    tester # NotCalled =>
        /\ (tester.op = "run_queries" /\ MatchingKeySet(tester.provider, tester.env))
                => tester.ret.raised = ""
        /\ (tester.op = "LLMTester" /\ tester.provider \in ProviderChoices
                /\ Truthy(tester.api_key))
                => tester.ret.raised # "ValueError: Unsupported provider"

BatchCalled == IF frame = None THEN FALSE ELSE frame.call = "batch_query"
BatchReturned == IF result = NotCalled THEN FALSE ELSE result.op = "batch_query"

\* the question, version and repetition of the i-th of the records, counted
\* by question, then version, then repetition
QuestionAt(i) == frame.questions[((i - 1) \div (3 * frame.repeat)) + 1]
VersionAt(i) == VersionTypes[(((i - 1) \div frame.repeat) % 3) + 1]
RepetitionAt(i) == ((i - 1) % frame.repeat) + 1

(* C23: batch_query returns exactly len(questions) * 3 * repeat records,   *)
(* ordered by question (input order), then by version in the fixed order   *)
(* direct, contextualized, variation, then by repetition 1..repeat; each   *)
(* record carries its question's id, ground_truth and category, its        *)
(* version_type and a repetition number in 1..repeat.                      *)
C23_BatchOrder ==
    BatchReturned =>
        /\ result.ret.raised = ""
        /\ Len(result.ret.value) = Len(frame.questions) * 3 * frame.repeat
        /\ \A i \in DOMAIN result.ret.value :
                /\ result.ret.value[i].question_id = QuestionAt(i).id
                /\ result.ret.value[i].ground_truth = QuestionAt(i).ground_truth
                /\ result.ret.value[i].category = QuestionAt(i).category
                /\ result.ret.value[i].version_type = VersionAt(i)
                /\ result.ret.value[i].repetition = RepetitionAt(i)
                /\ result.ret.value[i].repetition \in 1..frame.repeat

\* two questions asked twice in each version: twelve records, the eighth of
\* them the second repetition of the first version of the second question
C23_Witness ==
    /\ BatchReturned
    /\ Len(frame.questions) = 2
    /\ frame.repeat = 2
    /\ Len(result.ret.value) = 12
    /\ result.ret.value[8].question_id = "q2"
    /\ result.ret.value[8].version_type = "direct"
    /\ result.ret.value[8].repetition = 2

\* the report on the list that batch_query returned
BatchReported == BatchCalled /\ HasReturned({"generate_report"})

\* the versions of qid most of whose records came from failed queries
MostlyFailed(qid) ==
    {v \in Range(VersionTypes) :
        2 * Cardinality({i \in Failures(responses) :
                            /\ responses[i].question_id = qid
                            /\ responses[i].version_type = v})
            > Len(ExtractionsOf(qid, v))}

(* C24: a query that fails on every retry still contributes one record to  *)
(* the result (answer null, success false); the evaluator classifies that  *)
(* record as no_answer and counts it as 'no extraction' in its version's   *)
(* mode.                                                                   *)
C24_FailedQueryKept ==
    BatchReported =>
        /\ Len(responses) = Len(frame.questions) * 3 * frame.repeat
        /\ \A i \in Failures(responses) :
                /\ responses[i].answer = None
                /\ ClassOf(i) = "no_answer"
        /\ result.ret.value.accuracy.no_answer = Cardinality(Failures(responses))
        /\ Failures(responses) # {} =>
                result.ret.value.error_analysis.error_types.no_answer
                    = Cardinality(Failures(responses))
        /\ \A k \in DOMAIN result.ret.value.consistency.per_question :
                LET entry == result.ret.value.consistency.per_question[k]
                IN  /\ \A v \in MostlyFailed(entry.question_id) :
                            entry.version_answers[v] = None
                    /\ entry.retest_consistency = MeanOf(RetestScores(entry.question_id))

\* both queries of the first version failed: its representative is None, and
\* the two None agree with each other
C24_Witness ==
    /\ BatchReported
    /\ frame.repeat = 2
    /\ Failures(responses) = {1, 2}
    /\ result.ret.value.accuracy.no_answer = 2
    /\ result.ret.value.consistency.per_question[1].version_answers["direct"] = None
    /\ result.ret.value.consistency.per_question[1].retest_consistency = Float(1, 1)

IsPrefix(p, s) == IF Len(p) <= Len(s) THEN p = SubSeq(s, 1, Len(p)) ELSE FALSE

\* the list in the intermediate file, empty while there is no file
SavedSoFar == IF temp_file = None THEN <<>> ELSE temp_file.content

\* the file holds the responses up to the last multiple of save_interval
SavedIsLaggingPrefix ==
    BatchCalled =>
        /\ Len(all_responses) = frame.query_count
        /\ IsPrefix(SavedSoFar, all_responses)
        /\ Len(all_responses) - Len(SavedSoFar) < frame.save_interval
        /\ Len(SavedSoFar) = frame.save_interval * (frame.query_count \div frame.save_interval)
        /\ (temp_file = None) = (frame.query_count < frame.save_interval)
        /\ BatchReturned => IsPrefix(SavedSoFar, result.ret.value)

\* the k-th query, k a multiple of save_interval, leaves the first k responses
\* in the file; no step takes a response back
SavedAtMultiples ==
    InBatch =>
        /\ IsPrefix(all_responses, all_responses')
        /\ (frame'.query_count = frame.query_count + 1
                /\ frame'.query_count % frame.save_interval = 0)
            => (temp_file' = _save_responses(all_responses')
                    /\ Len(all_responses') = frame'.query_count)

(* C25: during batch_query, after the k-th query for every k that is a     *)
(* positive multiple of save_interval, the intermediate file is            *)
(* overwritten with exactly the first k responses; so at any point the     *)
(* saved file is a prefix of the final result, lagging by fewer than       *)
(* save_interval responses.                                                *)
C25_IntermediateSaves == []SavedIsLaggingPrefix /\ [][SavedAtMultiples]_vars

\* five queries made with save_interval 3: the file holds the first three
C25_Witness ==
    /\ BatchCalled
    /\ frame.save_interval = 3
    /\ Len(all_responses) = 5
    /\ temp_file = _save_responses(SubSeq(all_responses, 1, 3))

====
